---- MODULE Spec2Model ----
(***************************************************************************)
(* Request dispatch of the Readwise MCP server (ReadwiseMCPServer).        *)
(*                                                                         *)
(* The model follows server.ts: validateMCPRequest, handleMCPRequest,      *)
(* handleToolCall, handlePromptCall and the SDK tools/call handler that    *)
(* registerToolsWithSDK installs.                                          *)
(*                                                                         *)
(* JavaScript values are records [t, v]: t is the run-time type tag and v  *)
(* the payload.  A string is a sequence of tokens, so that concatenation   *)
(* (template literals) is \o and trim() strips whitespace tokens.          *)
(* The tag "absent" stands for a key that is not in the object.            *)
(***************************************************************************)
EXTENDS Integers, Sequences, FiniteSets, TLC

\* Number of requests that can be in flight at once in SpecConcurrent.
MaxReq == 2

Slots == 1..MaxReq

-----------------------------------------------------------------------------
(* JavaScript values *)

Absent == [t |-> "absent", v |-> <<>>]
Null == [t |-> "null", v |-> <<>>]
Arr == [t |-> "array", v |-> <<>>]
Str(s) == [t |-> "string", v |-> s]
Num(n) == [t |-> "number", v |-> <<n>>]
Obj(k) == [t |-> "object", v |-> <<k>>]

WS == " "
NL == "\n"

\* The white space and line terminators that trim() strips
WhiteSpace == {WS, NL}

\* typeof x
TypeOf(x) ==
  CASE x.t = "absent" -> "undefined"
    [] x.t \in {"null", "array", "object"} -> "object"
    [] OTHER -> x.t

\* ToBoolean(x), as used by || and by the conditional operator
Truthy(x) ==
  CASE x.t \in {"absent", "null"} -> FALSE
    [] x.t = "string" -> x.v # <<>>
    [] x.t = "number" -> x.v # <<"0">>
    [] OTHER -> TRUE

\* String(x), as used by template literals and String()
ToStr(x) ==
  CASE x.t = "absent" -> <<"undefined">>
    [] x.t = "null" -> <<"null">>
    [] x.t = "object" -> <<"[object Object]">>
    [] x.t = "array" -> <<>>
    [] OTHER -> x.v

RECURSIVE TrimStart(_)
TrimStart(s) == IF s # <<>> /\ Head(s) \in WhiteSpace THEN TrimStart(Tail(s)) ELSE s

RECURSIVE TrimEnd(_)
TrimEnd(s) ==
  IF s # <<>> /\ s[Len(s)] \in WhiteSpace THEN TrimEnd(SubSeq(s, 1, Len(s) - 1)) ELSE s

\* String.prototype.trim
Trim(s) == TrimEnd(TrimStart(s))

-----------------------------------------------------------------------------
(* Requests *)

\* A request handed to handleMCPRequest.  isObject is FALSE for a request
\* that is null or a primitive (it then has no keys).
MkRequest(type, name, request_id, parameters) ==
  [isObject |-> TRUE, type |-> type, name |-> name,
   request_id |-> request_id, parameters |-> parameters]

NonObjectRequest ==
  [isObject |-> FALSE, type |-> Absent, name |-> Absent,
   request_id |-> Absent, parameters |-> Absent]

NoRequest ==
  [isObject |-> FALSE, type |-> Str(<<"none">>), name |-> Absent,
   request_id |-> Absent, parameters |-> Absent]

\* 'k' in request
HasKey(x) == x.t # "absent"

-----------------------------------------------------------------------------
(* Operations and registries *)

\* A registered operation: its name and which optional members it has.
Operation(name, hasValidate, hasExecuteAsMCP) ==
  [name |-> name, hasValidate |-> hasValidate, hasExecuteAsMCP |-> hasExecuteAsMCP]

NoOperation == Operation(<<>>, FALSE, FALSE)

GET_BOOKS == <<"get_books">>
GET_TAGS == <<"get_tags">>
READWISE_HIGHLIGHT == <<"readwise_highlight">>
READWISE_SEARCH == <<"readwise_search">>

\* toolClasses without the last class of its list.
toolClassesWithoutLast ==
  <<"get_highlights", "get_books", "get_documents", "search_highlights",
    "get_tags", "document_tags", "bulk_tags", "get_reading_progress",
    "update_reading_progress", "get_reading_list",
    "create_highlight", "update_highlight", "delete_highlight", "create_note",
    "advanced_search", "search_by_tag", "search_by_date",
    "get_videos", "get_video", "create_video_highlight", "get_video_highlights",
    "update_video_position", "get_video_position",
    "save_document", "update_document", "delete_document", "get_recent_content",
    "bulk_save_documents", "bulk_update_documents">>

\* const toolClasses = [...] of registerTools: the tool classes in the order
\* of the list, each named by the name of its tool.
toolClasses ==
  <<"get_highlights", "get_books", "get_documents", "search_highlights",
    "get_tags", "document_tags", "bulk_tags", "get_reading_progress",
    "update_reading_progress", "get_reading_list",
    "create_highlight", "update_highlight", "delete_highlight", "create_note",
    "advanced_search", "search_by_tag", "search_by_date",
    "get_videos", "get_video", "create_video_highlight", "get_video_highlights",
    "update_video_position", "get_video_position",
    "save_document", "update_document", "delete_document", "get_recent_content",
    "bulk_save_documents", "bulk_update_documents", "bulk_delete_documents">>

\* highlightPrompt and searchPrompt of registerPrompts
promptClasses == <<"readwise_highlight", "readwise_search">>

\* new ToolClass(this.api, this.logger).  The dispatcher treats validate and
\* executeAsMCP as optional members of an operation: one tool has no
\* validator, one has executeAsMCP.
NewTool(class) ==
  Operation(<<class>>, <<class>> # GET_TAGS, <<class>> = GET_BOOKS)

\* new ReadwiseHighlightPrompt(...), new ReadwiseSearchPrompt(...): one
\* prompt has a validator and one has none.
NewPrompt(class) == Operation(<<class>>, <<class>> = READWISE_HIGHLIGHT, FALSE)

\* Registry.register(operation): the operation is stored under its name.
Register(registry, op) == {o \in registry : o.name # op.name} \cup {op}

\* The registry after the operations of ops were registered in order.
RECURSIVE RegisterAll(_, _)
RegisterAll(registry, ops) ==
  IF ops = <<>> THEN registry
  ELSE RegisterAll(Register(registry, Head(ops)), Tail(ops))

\* The registries after registerTools / registerPrompts, as the set of
\* operations they hold.
RegisteredTools ==
  RegisterAll({}, [i \in DOMAIN toolClasses |-> NewTool(toolClasses[i])])

RegisteredPrompts ==
  RegisterAll({}, [i \in DOMAIN promptClasses |-> NewPrompt(promptClasses[i])])

\* const tools = [...] of the Smithery entry point: the tools in the order
\* of the list, each named by its name.
SmitheryTools ==
  <<"get_highlights", "get_books", "get_documents", "search_highlights",
    "get_tags", "document_tags", "bulk_tags", "get_reading_progress",
    "update_reading_progress", "get_reading_list",
    "create_highlight", "update_highlight", "delete_highlight", "create_note",
    "advanced_search", "search_by_tag", "search_by_date",
    "get_videos", "get_video", "create_video_highlight", "get_video_highlights",
    "update_video_position", "get_video_position",
    "save_document", "update_document", "delete_document", "get_recent_content",
    "bulk_save_documents", "bulk_update_documents", "bulk_delete_documents">>

\* highlightPrompt and searchPrompt of the Smithery entry point
SmitheryPrompts == <<"readwise_highlight", "readwise_search">>

\* The names server.tool(tool.name, ...) and server.prompt(prompt.name, ...)
\* were called with.
SmitheryToolNames == {<<SmitheryTools[i]>> : i \in DOMAIN SmitheryTools}
SmitheryPromptNames == {<<SmitheryPrompts[i]>> : i \in DOMAIN SmitheryPrompts}

\* Registry.get(name): the operation registered under name, or NoOperation.
RegistryGet(registry, name) ==
  IF \E op \in registry : op.name = name
  THEN CHOOSE op \in registry : op.name = name
  ELSE NoOperation

\* Registry.getNames()
RegistryNames(registry) == {op.name : op \in registry}

-----------------------------------------------------------------------------
(* Validators (collaborators) *)

ValidationError(field, message) == [field |-> field, message |-> message]

ValidationResult(valid, errors) == [threw |-> FALSE, valid |-> valid, errors |-> errors]

ValidatorThrows == [threw |-> TRUE, valid |-> FALSE, errors |-> <<>>]

ErrPage == ValidationError(<<"page">>, <<"must be >= 1">>)
ErrSize == ValidationError(<<"page_size">>, <<"must be <= 100">>)

\* The errors a validator reports for a plain parameter object.
ValidatorErrors(parameters) ==
  CASE parameters.v = <<"bad1">> -> <<ErrPage>>
    [] parameters.v = <<"bad2">> -> <<ErrSize, ErrPage>>
    [] OTHER -> <<>>

\* What validate(parameters) can do.  On a plain object it is a function
\* of the object; on anything else (null, an array) the validator may
\* throw, accept or reject.
ValidateOutcomes(parameters) ==
  IF parameters.t = "object"
  THEN {ValidationResult(ValidatorErrors(parameters) = <<>>, ValidatorErrors(parameters))}
  ELSE {ValidatorThrows, ValidationResult(TRUE, <<>>), ValidationResult(FALSE, <<ErrPage>>)}

-----------------------------------------------------------------------------
(* Responses *)

ErrorResponse(etype, code, message, hasErrors, errors, request_id) ==
  [kind |-> "error", etype |-> etype, code |-> code, message |-> message,
   hasErrors |-> hasErrors, errors |-> errors, content |-> Absent,
   request_id |-> request_id]

SuccessResponse(content, request_id) ==
  [kind |-> "success", etype |-> "", code |-> <<>>, message |-> <<>>,
   hasErrors |-> FALSE, errors |-> <<>>, content |-> content,
   request_id |-> request_id]


-----------------------------------------------------------------------------
(* Results and errors of an execution (collaborators) *)

\* What execute() resolves with.  t is the result's type, key names the
\* value, content and request_id are its fields of that name, cyclic says
\* that JSON.stringify throws on it.
MkResult(t, key, content, request_id, cyclic) ==
  [t |-> t, key |-> key, content |-> content, request_id |-> request_id,
   cyclic |-> cyclic]

NoResult == MkResult("absent", "", Absent, Absent, FALSE)

Details(t, code, message) == [t |-> t, code |-> code, message |-> message]

NoDetails == Details("absent", Absent, Absent)

\* What execute() rejects with (or a handler throws).  isObject: the value
\* is a non-null object; isError: it is an instance of Error; message,
\* type and details are its fields of that name.
MkError(isObject, isError, message, type, details) ==
  [isObject |-> isObject, isError |-> isError, message |-> message,
   type |-> type, details |-> details]

NoError == MkError(FALSE, FALSE, <<>>, Absent, NoDetails)

\* TypeError of reading .content of null or undefined
ContentTypeError ==
  MkError(TRUE, TRUE, <<"Cannot read properties of null (reading 'content')">>,
          Absent, NoDetails)

\* TypeError of JSON.stringify on a cyclic structure
StringifyTypeError ==
  MkError(TRUE, TRUE, <<"Converting circular structure to JSON">>, Absent, NoDetails)

\* The error a throwing response callback throws
CallbackError == MkError(TRUE, TRUE, <<"write EPIPE">>, Absent, NoDetails)

Pending == [state |-> "pending", result |-> NoResult, error |-> NoError]
Fulfilled(result) == [state |-> "fulfilled", result |-> result, error |-> NoError]
Rejected(error) == [state |-> "rejected", result |-> NoResult, error |-> error]

\* JSON.stringify(result) of a serializable result
JSONStringify(result) ==
  IF result.t = "object" THEN <<"{", result.key, "}">> ELSE <<result.key>>

\* [{ type: 'text', text }]
TextContent(text) == [t |-> "array", v |-> <<"text">> \o text]

-----------------------------------------------------------------------------
(* validateMCPRequest *)

Valid == [valid |-> TRUE, error |-> <<>>]
Invalid(error) == [valid |-> FALSE, error |-> error]

IsRequestType(type) == type = Str(<<"tool_call">>) \/ type = Str(<<"prompt_call">>)

\* typeof x !== 'string' || x.trim() === ''
NotNonEmptyString(x) == x.t # "string" \/ Trim(x.v) = <<>>

\* !('parameters' in request) || typeof request.parameters !== 'object'
ParametersRejected(parameters) == ~HasKey(parameters) \/ TypeOf(parameters) # "object"

\* validateMCPRequest without the check of the type's value.
validateMCPRequestAnyType(request) ==
  IF ~request.isObject THEN Invalid(<<"Request must be a JSON object">>)
  ELSE IF ~HasKey(request.type) THEN Invalid(<<"Missing required field: type">>)
  ELSE IF ~HasKey(request.name) THEN Invalid(<<"Missing required field: name">>)
  ELSE IF ~HasKey(request.request_id)
    THEN Invalid(<<"Missing required field: request_id">>)
  ELSE IF NotNonEmptyString(request.name)
    THEN Invalid(<<"Invalid request name: must be a non-empty string">>)
  ELSE IF NotNonEmptyString(request.request_id)
    THEN Invalid(<<"Invalid request_id: must be a non-empty string">>)
  ELSE IF ParametersRejected(request.parameters)
    THEN Invalid(<<"Missing or invalid parameters: must be an object">>)
  ELSE Valid

\* validateMCPRequest checking the name before the type.
validateMCPRequestNameFirst(request) ==
  IF ~request.isObject THEN Invalid(<<"Request must be a JSON object">>)
  ELSE IF ~HasKey(request.type) THEN Invalid(<<"Missing required field: type">>)
  ELSE IF ~HasKey(request.name) THEN Invalid(<<"Missing required field: name">>)
  ELSE IF ~HasKey(request.request_id)
    THEN Invalid(<<"Missing required field: request_id">>)
  ELSE IF NotNonEmptyString(request.name)
    THEN Invalid(<<"Invalid request name: must be a non-empty string">>)
  ELSE IF ~IsRequestType(request.type)
    THEN Invalid(<<"Invalid request type: ">> \o ToStr(request.type)
                 \o <<". Must be 'tool_call' or 'prompt_call'">>)
  ELSE IF NotNonEmptyString(request.request_id)
    THEN Invalid(<<"Invalid request_id: must be a non-empty string">>)
  ELSE IF ParametersRejected(request.parameters)
    THEN Invalid(<<"Missing or invalid parameters: must be an object">>)
  ELSE Valid

validateMCPRequest(request) ==
  IF ~request.isObject THEN Invalid(<<"Request must be a JSON object">>)
  ELSE IF ~HasKey(request.type) THEN Invalid(<<"Missing required field: type">>)
  ELSE IF ~HasKey(request.name) THEN Invalid(<<"Missing required field: name">>)
  ELSE IF ~HasKey(request.request_id)
    THEN Invalid(<<"Missing required field: request_id">>)
  ELSE IF ~IsRequestType(request.type)
    THEN Invalid(<<"Invalid request type: ">> \o ToStr(request.type)
                 \o <<". Must be 'tool_call' or 'prompt_call'">>)
  ELSE IF NotNonEmptyString(request.name)
    THEN Invalid(<<"Invalid request name: must be a non-empty string">>)
  ELSE IF NotNonEmptyString(request.request_id)
    THEN Invalid(<<"Invalid request_id: must be a non-empty string">>)
  ELSE IF ParametersRejected(request.parameters)
    THEN Invalid(<<"Missing or invalid parameters: must be an object">>)
  ELSE Valid

-----------------------------------------------------------------------------
(* What one run of a handler does: the calls it makes and where it ends *)

\* A call to a collaborator: a registry lookup, a validator, an execute.
\* returned is what a validator call returned (NoVerdict for the others).
NoVerdict == [threw |-> FALSE, valid |-> TRUE, errors |-> <<>>]

CallReturning(op, registry, name, parameters, returned) ==
  [op |-> op, registry |-> registry, name |-> name, parameters |-> parameters,
   returned |-> returned]

Call(op, registry, name, parameters) ==
  CallReturning(op, registry, name, parameters, NoVerdict)

\* One invocation of the response callback; threw: the callback threw.
Invocation(response, threw) == [response |-> response, threw |-> threw]

\* The handler invoked the callback with response as its last step.
Responded(trace, response, cbThrows) ==
  [pc |-> IF cbThrows THEN "threw" ELSE "done",
   calls |-> <<Invocation(response, cbThrows)>>, trace |-> trace]

\* The handler let an exception escape without invoking the callback.
Threw(trace) == [pc |-> "threw", calls |-> <<>>, trace |-> trace]

\* The handler started an execution and returned.
Started(trace) == [pc |-> "executing", calls |-> <<>>, trace |-> trace]

\* InvalidRequestId never echoing the request's own request_id.
InvalidRequestIdUnknown(request) == Str(<<"unknown">>)

\* request_id: (request as any)?.request_id || 'unknown'
InvalidRequestId(request) ==
  IF Truthy(request.request_id) THEN request.request_id ELSE Str(<<"unknown">>)

InvalidRequestResponse(request, validation) ==
  ErrorResponse("transport", <<"invalid_request">>,
                IF validation.error # <<>> THEN validation.error
                ELSE <<"Invalid request format">>,
                FALSE, <<>>, InvalidRequestId(request))

ToolNotFoundResponse(name, request_id) ==
  ErrorResponse("transport", <<"tool_not_found">>, <<"Tool not found: ">> \o name,
                FALSE, <<>>, request_id)

\* PromptNotFoundResponse with the code and message of the tool branch.
PromptNotFoundAsTool(name, request_id) ==
  ErrorResponse("transport", <<"tool_not_found">>, <<"Tool not found: ">> \o name,
                FALSE, <<>>, request_id)

PromptNotFoundResponse(name, request_id) ==
  ErrorResponse("transport", <<"prompt_not_found">>, <<"Prompt not found: ">> \o name,
                FALSE, <<>>, request_id)

\* FormatError leaving the field out.
FormatErrorMessageOnly(e) == e.message

\* `${e.field}: ${e.message}`
FormatError(e) == e.field \o <<": ">> \o e.message

\* validationResult.errors.map(e => `${e.field}: ${e.message}`)
FormatErrors(errors) == [i \in 1..Len(errors) |-> FormatError(errors[i])]

InvalidParametersResponse(errors, request_id) ==
  ErrorResponse("validation", <<"invalid_parameters">>, <<"Invalid parameters">>,
                TRUE, FormatErrors(errors), request_id)

\* ValidationOf whose default verdict is invalid.
ValidationOfDefaultInvalid(op, outcome) ==
  IF op.hasValidate THEN outcome ELSE ValidationResult(FALSE, <<>>)

\* op.validate ? op.validate(parameters) : { valid: true, success: true, errors: [] }
\* outcome is what the validator does when it is called.
ValidationOf(op, outcome) ==
  IF op.hasValidate THEN outcome ELSE ValidationResult(TRUE, <<>>)

\* The validator call, when the operation has one.
ValidateCalls(registry, op, parameters, outcome) ==
  IF op.hasValidate
  THEN <<CallReturning("validate", registry, op.name, parameters, outcome)>>
  ELSE <<>>

\* typeof tool.executeAsMCP === 'function' ? tool.executeAsMCP(p) : tool.execute(p)
ToolExecuteCall(tool, parameters) ==
  Call(IF tool.hasExecuteAsMCP THEN "executeAsMCP" ELSE "execute",
       "tools", tool.name, parameters)

PromptExecuteCall(prompt, parameters) ==
  Call("execute", "prompts", prompt.name, parameters)


-----------------------------------------------------------------------------
(* State *)

VARIABLES
  toolRegistry,    \* this.toolRegistry: the registered tools
  promptRegistry,  \* this.promptRegistry: the registered prompts
  pc,              \* per request: where its handling stands
  via,             \* per request: the dispatch path that took it
  request,         \* per request: the request its closures hold
  settled,         \* per request: the state of the promise of its execution
  calls,           \* per request: the invocations of its response callback
  trace,           \* per request: the collaborator calls made for it
  order            \* the requests in the order they were dispatched

dispatchVars ==
  <<toolRegistry, promptRegistry, pc, via, request, settled, calls, trace, order>>

VARIABLES
  argvTransport,   \* argv.transport of the command line
  isMCPInspector,  \* the constructor found the MCP Inspector environment
  isReady,         \* this.isReady
  stdinHandler,    \* process.stdin has the 'data' listener of setupStdioTransport
  stream,          \* the text the client writes to standard input
  consumed,        \* how much of stream has arrived in 'data' events
  stdout,          \* the writes to standard output, in order
  stderr           \* the writes to standard error, in order

stdioVars ==
  <<argvTransport, isMCPInspector, isReady, stdinHandler, stream, consumed, stdout,
    stderr>>

VARIABLES
  sseTransports,   \* the Map sseTransports of setupSSERoutes: sessionId -> transport
  sse,             \* per GET /sse connection: its handler, request and transport
  posted,          \* flips with every POST /messages request handled
  lastPost         \* the last POST /messages request, its response and transport

sseVars == <<sseTransports, sse, posted, lastPost>>

VARIABLES
  streamableTransports, \* the Map streamableTransports of setupRoutes
  mcp,             \* per /mcp request: its handler, headers and transport
  closedTransports, \* the Streamable HTTP transports whose connection is gone
  stopped          \* stop() was called

mcpVars == <<streamableTransports, mcp, closedTransports, stopped>>

VARIABLES
  authToken,       \* this.authToken
  gate             \* the last request to /sse, /messages or /mcp, and its answer

authVars == <<authToken, gate>>

VARIABLES
  startPromise,    \* the promise server.start() returned to main
  exitCode,        \* the status the process exited with
  hooks,           \* main installed its signal and process error listeners
  faults,          \* how many uncaught exceptions and unhandled rejections arose
  health,          \* the last answer of GET /health
  listing          \* the last answer of GET /capabilities or tools/list

procVars == <<startPromise, exitCode, hooks, faults, health, listing>>

VARIABLES
  stdoutOpen,      \* the reader of standard output is there
  uncaught         \* how many errors reached the process as uncaught exceptions

boundaryVars == <<stdoutOpen, uncaught>>

VARIABLES
  cli,             \* the --port option and the PORT variable the process got
  argvPort,        \* argv.port of main
  port             \* this.port

mainVars == <<cli, argvPort, port>>

\* The Smithery entry point (smithery.ts)
VARIABLES
  serverTools,     \* the tools registered with server.tool(...), in order
  toolCall         \* the last call of a registered tool handler, and what it returned

smitheryVars == <<serverTools, toolCall>>

\* The state of the HTTP endpoints other than /sse and /messages, and of
\* the process
httpVars == <<mcpVars, authVars, procVars, boundaryVars, mainVars, smitheryVars>>

\* The state of the transport adapters
adapterVars == <<stdioVars, sseVars, httpVars>>

vars == <<dispatchVars, stdioVars, sseVars, httpVars>>

\* ToolLookup falling back to the prompt registry.
ToolLookupAnyRegistry(name) ==
  IF RegistryGet(toolRegistry, name) # NoOperation
  THEN RegistryGet(toolRegistry, name)
  ELSE RegistryGet(promptRegistry, name)

\* this.toolRegistry.get(name)
ToolLookup(name) == RegistryGet(toolRegistry, name)

\* this.promptRegistry.get(name)
PromptLookup(name) == RegistryGet(promptRegistry, name)

-----------------------------------------------------------------------------
(* handleToolCall, handlePromptCall, handleMCPRequest: the synchronous part *)

handleToolCall(req, outcome, cbThrows) ==
  LET name == req.name.v
      tool == ToolLookup(name)
      lookup == <<Call("get", "tools", name, Absent)>>
      validationResult == ValidationOf(tool, outcome)
      validated == lookup \o ValidateCalls("tools", tool, req.parameters, outcome)
  IN IF tool = NoOperation
       THEN Responded(lookup, ToolNotFoundResponse(name, req.request_id), cbThrows)
     ELSE IF validationResult.threw THEN Threw(validated)
     ELSE IF ~validationResult.valid
       THEN Responded(validated,
                      InvalidParametersResponse(validationResult.errors, req.request_id),
                      cbThrows)
     ELSE Started(validated \o <<ToolExecuteCall(tool, req.parameters)>>)

handlePromptCall(req, outcome, cbThrows) ==
  LET name == req.name.v
      prompt == PromptLookup(name)
      lookup == <<Call("get", "prompts", name, Absent)>>
      validationResult == ValidationOf(prompt, outcome)
      validated == lookup \o ValidateCalls("prompts", prompt, req.parameters, outcome)
  IN IF prompt = NoOperation
       THEN Responded(lookup, PromptNotFoundResponse(name, req.request_id), cbThrows)
     ELSE IF validationResult.threw THEN Threw(validated)
     ELSE IF ~validationResult.valid
       THEN Responded(validated,
                      InvalidParametersResponse(validationResult.errors, req.request_id),
                      cbThrows)
     ELSE Started(validated \o <<PromptExecuteCall(prompt, req.parameters)>>)

InvalidRequestTypeResponse(req) ==
  ErrorResponse("transport", <<"invalid_request_type">>,
                <<"Unknown request type: ">> \o ToStr(req.type), FALSE, <<>>,
                req.request_id)

handleMCPRequest(req, outcome, cbThrows) ==
  LET validation == validateMCPRequest(req)
  IN IF ~validation.valid
       THEN Responded(<<>>, InvalidRequestResponse(req, validation), cbThrows)
     ELSE IF req.type = Str(<<"tool_call">>) THEN handleToolCall(req, outcome, cbThrows)
     ELSE IF req.type = Str(<<"prompt_call">>) THEN handlePromptCall(req, outcome, cbThrows)
     ELSE Responded(<<>>, InvalidRequestTypeResponse(req), cbThrows)

-----------------------------------------------------------------------------
(* The .then and .catch handlers of an execution *)

\* { ...response, request_id: request.request_id }
MergeRequestId(response, request_id) == [response EXCEPT !.request_id = request_id]

\* (result as any).content ? result : { content: [{ type: 'text', text: JSON.stringify(result) }] }
\* The result's own request_id is spread into the response first.
ContentResponse(result) ==
  IF Truthy(result.content)
  THEN SuccessResponse(result.content, result.request_id)
  ELSE SuccessResponse(TextContent(JSONStringify(result)), Absent)

\* What the .then handler throws before it reaches the callback, if anything.
ThenThrows(result) ==
  IF result.t \in {"null", "undefined"} THEN ContentTypeError
  ELSE IF ~Truthy(result.content) /\ result.cyclic THEN StringifyTypeError
  ELSE NoError

SuccessOf(result, req) == MergeRequestId(ContentResponse(result), req.request_id)

\* error && typeof error === 'object' && 'type' in error && error.type === 'authentication'
IsAuthError(error) == error.isObject /\ error.type = Str(<<"authentication">>)

\* ErrorDetails never finding details on the error.
ErrorDetailsIgnored(error) == NoDetails

\* error && typeof error === 'object' && 'details' in error ? error.details : null
ErrorDetails(error) ==
  IF error.isObject /\ error.details.t # "absent" THEN error.details ELSE NoDetails

\* errorDetails && typeof errorDetails === 'object' && k in errorDetails
DetailsHas(details, field) == details.t = "object" /\ HasKey(field)

ErrorMessage(error) == IF error.isError THEN error.message ELSE <<"Unknown error">>

ToolErrorResponse(error, req) ==
  LET errorDetails == ErrorDetails(error)
  IN ErrorResponse(IF IsAuthError(error) THEN "validation" ELSE "execution",
                   IF DetailsHas(errorDetails, errorDetails.code)
                   THEN ToStr(errorDetails.code) ELSE <<"tool_error">>,
                   IF DetailsHas(errorDetails, errorDetails.message)
                   THEN ToStr(errorDetails.message) ELSE ErrorMessage(error),
                   FALSE, <<>>, req.request_id)

PromptErrorResponse(error, req) ==
  ErrorResponse("execution", <<"prompt_error">>, ErrorMessage(error), FALSE, <<>>,
                req.request_id)

ExecutionErrorOf(error, req) ==
  IF req.type = Str(<<"tool_call">>) THEN ToolErrorResponse(error, req)
  ELSE PromptErrorResponse(error, req)


-----------------------------------------------------------------------------
(* The SDK tools/call handler installed by registerToolsWithSDK *)

\* args || {}
ArgsOrEmpty(args) == IF Truthy(args) THEN args ELSE Obj("empty")

sdkCallTool(name, args) ==
  LET tool == ToolLookup(name)
      lookup == <<Call("get", "tools", name, Absent)>>
  IN IF tool = NoOperation THEN Threw(lookup)
     ELSE Started(lookup \o <<Call("execute", "tools", tool.name, ArgsOrEmpty(args))>>)

-----------------------------------------------------------------------------
(* Actions *)

NoPromise == [state |-> "none", result |-> NoResult, error |-> NoError]

\* CallHandleMCPRequest remembering the request_ids it has seen: a request
\* whose request_id was dispatched before is dropped without execution.
CallHandleMCPRequestDeduplicating(s, req, outcome, cbThrows) ==
  /\ pc[s] = "idle"
  /\ LET seen == \E o \in Slots : o # s /\ via[o] = "envelope"
                                  /\ request[o].request_id = req.request_id
         r == IF seen THEN [pc |-> "done", calls |-> <<>>, trace |-> <<>>]
              ELSE handleMCPRequest(req, outcome, cbThrows)
     IN /\ pc' = [pc EXCEPT ![s] = r.pc]
        /\ settled' = [settled EXCEPT ![s] = IF r.pc = "executing" THEN Pending ELSE @]
        /\ calls' = [calls EXCEPT ![s] = r.calls]
        /\ trace' = [trace EXCEPT ![s] = r.trace]
  /\ via' = [via EXCEPT ![s] = "envelope"]
  /\ request' = [request EXCEPT ![s] = req]
  /\ order' = Append(order, s)
  /\ UNCHANGED <<toolRegistry, promptRegistry>>

\* A caller (the stdio adapter, a test) calls handleMCPRequest(req, callback).
CallHandleMCPRequest(s, req, outcome, cbThrows) ==
  /\ pc[s] = "idle"
  /\ LET r == handleMCPRequest(req, outcome, cbThrows)
     IN /\ pc' = [pc EXCEPT ![s] = r.pc]
        /\ settled' = [settled EXCEPT ![s] = IF r.pc = "executing" THEN Pending ELSE @]
        /\ calls' = [calls EXCEPT ![s] = r.calls]
        /\ trace' = [trace EXCEPT ![s] = r.trace]
  /\ via' = [via EXCEPT ![s] = "envelope"]
  /\ request' = [request EXCEPT ![s] = req]
  /\ order' = Append(order, s)
  /\ UNCHANGED <<toolRegistry, promptRegistry>>

\* The SDK calls the tools/call handler with request.params = { name, arguments }.
SdkCallTool(s, name, args) ==
  /\ pc[s] = "idle"
  /\ LET r == sdkCallTool(name, args)
     IN /\ pc' = [pc EXCEPT ![s] = r.pc]
        /\ settled' = [settled EXCEPT ![s] = IF r.pc = "executing" THEN Pending ELSE @]
        /\ calls' = [calls EXCEPT ![s] = r.calls]
        /\ trace' = [trace EXCEPT ![s] = r.trace]
  /\ via' = [via EXCEPT ![s] = "sdk"]
  /\ request' = [request EXCEPT ![s] = MkRequest(Str(<<"tools/call">>), Str(name), Absent, args)]
  /\ order' = Append(order, s)
  /\ UNCHANGED <<toolRegistry, promptRegistry>>

\* The promise returned by execute / executeAsMCP settles.
ExecuteSettles(s, promise) ==
  /\ pc[s] = "executing"
  /\ pc' = [pc EXCEPT ![s] = promise.state]
  /\ settled' = [settled EXCEPT ![s] = promise]
  /\ UNCHANGED <<toolRegistry, promptRegistry, via, request, calls, trace, order>>

\* ThenHandler reading the request from a field shared by all requests
\* (the request dispatched last) instead of from its own closure.
ThenHandlerLatest(s, cbThrows) ==
  /\ pc[s] = "fulfilled"
  /\ via[s] = "envelope"
  /\ LET result == settled[s].result
         thrown == ThenThrows(result)
         latest == request[order[Len(order)]]
     IN IF thrown # NoError
        THEN /\ pc' = [pc EXCEPT ![s] = "rejected"]
             /\ settled' = [settled EXCEPT ![s] = Rejected(thrown)]
             /\ calls' = calls
        ELSE /\ calls' = [calls EXCEPT ![s] =
                            Append(@, Invocation(SuccessOf(result, latest), cbThrows))]
             /\ pc' = [pc EXCEPT ![s] = IF cbThrows THEN "rejected" ELSE "done"]
             /\ settled' = [settled EXCEPT ![s] =
                              IF cbThrows THEN Rejected(CallbackError) ELSE @]
  /\ UNCHANGED <<toolRegistry, promptRegistry, via, request, trace, order>>

\* .then((result) => { ...; callback({ ...response, request_id }) })
ThenHandler(s, cbThrows) ==
  /\ pc[s] = "fulfilled"
  /\ via[s] = "envelope"
  /\ LET result == settled[s].result
         thrown == ThenThrows(result)
     IN IF thrown # NoError
        THEN /\ pc' = [pc EXCEPT ![s] = "rejected"]
             /\ settled' = [settled EXCEPT ![s] = Rejected(thrown)]
             /\ calls' = calls
        ELSE /\ calls' = [calls EXCEPT ![s] =
                            Append(@, Invocation(SuccessOf(result, request[s]), cbThrows))]
             /\ pc' = [pc EXCEPT ![s] = IF cbThrows THEN "rejected" ELSE "done"]
             /\ settled' = [settled EXCEPT ![s] =
                              IF cbThrows THEN Rejected(CallbackError) ELSE @]
  /\ UNCHANGED <<toolRegistry, promptRegistry, via, request, trace, order>>

\* .catch((error) => { ...; callback(errorResponse) })
CatchHandler(s, cbThrows) ==
  /\ pc[s] = "rejected"
  /\ via[s] = "envelope"
  /\ calls' = [calls EXCEPT ![s] =
                 Append(@, Invocation(ExecutionErrorOf(settled[s].error, request[s]),
                                      cbThrows))]
  /\ pc' = [pc EXCEPT ![s] = IF cbThrows THEN "unhandled" ELSE "done"]
  /\ UNCHANGED <<toolRegistry, promptRegistry, via, request, settled, trace, order>>

\* const result = await tool.execute(args || {}); return result;
SdkResume(s) ==
  /\ pc[s] \in {"fulfilled", "rejected"}
  /\ via[s] = "sdk"
  /\ pc' = [pc EXCEPT ![s] = IF pc[s] = "fulfilled" THEN "returned" ELSE "threw"]
  /\ UNCHANGED <<toolRegistry, promptRegistry, via, request, settled, calls, trace, order>>

-----------------------------------------------------------------------------
(* Inputs *)

R1 == Str(<<"r1">>)
R2 == Str(<<"r2">>)

TypeValues ==
  {Absent, Str(<<"tool_call">>), Str(<<"prompt_call">>), Str(<<"resource_call">>), Null}

NameValues ==
  {Absent, Str(GET_BOOKS), Str(GET_TAGS), Str(READWISE_HIGHLIGHT), Str(READWISE_SEARCH),
   Str(<<"get_nothing">>), Str(<<>>), Str(<<WS>>), Str(<<WS>> \o GET_BOOKS), Num("5")}

RequestIdValues ==
  {Absent, R1, R2, Str(<<>>), Str(<<WS>>), Num("0"), Num("42"), Null}

ParameterValues ==
  {Absent, Obj("ok"), Obj("bad1"), Obj("bad2"), Null, Arr, Str(<<"x">>), Num("3")}

Requests ==
  {MkRequest(t, n, i, p) :
     t \in TypeValues, n \in NameValues, i \in RequestIdValues, p \in ParameterValues}
  \cup {NonObjectRequest}

Books == [t |-> "array", v |-> <<"books">>]

Results ==
  {MkResult("object", "content", Books, Absent, FALSE),
   MkResult("object", "content+id", Books, Str(<<"other">>), FALSE),
   MkResult("object", "raw", Absent, Absent, FALSE),
   MkResult("object", "raw+id", Absent, Str(<<"other">>), FALSE),
   MkResult("object", "emptycontent", Str(<<>>), Absent, FALSE),
   MkResult("object", "cyclic", Absent, Absent, TRUE),
   MkResult("null", "null", Absent, Absent, FALSE)}

Errors ==
  {MkError(TRUE, TRUE, <<"boom">>, Absent, NoDetails),
   MkError(TRUE, FALSE, <<>>, Str(<<"authentication">>),
           Details("object", Str(<<"invalid_api_key">>), Str(<<"Invalid API key">>))),
   MkError(TRUE, TRUE, <<"Rate limited">>, Str(<<"api">>),
           Details("object", Num("429"), Absent)),
   MkError(TRUE, TRUE, <<"No key">>, Str(<<"authentication">>), NoDetails),
   MkError(TRUE, TRUE, <<"Bad gateway">>, Absent, Details("string", Absent, Absent)),
   MkError(FALSE, FALSE, <<>>, Absent, NoDetails)}

Promises == {Fulfilled(r) : r \in Results} \cup {Rejected(e) : e \in Errors}

SdkNames == {GET_BOOKS, GET_TAGS, READWISE_SEARCH, <<"get_nothing">>}

SdkArgs == {Absent, Obj("ok"), Obj("bad1"), Obj("bad2")}

\* The inputs of SpecConcurrent: well-formed requests, two of them equal
\* but for their request_id, and two promises.
ConcurrentRequests ==
  {MkRequest(Str(<<"tool_call">>), Str(GET_TAGS), R1, Obj("ok")),
   MkRequest(Str(<<"tool_call">>), Str(GET_TAGS), R2, Obj("ok")),
   MkRequest(Str(<<"tool_call">>), Str(GET_BOOKS), R1, Obj("bad1")),
   MkRequest(Str(<<"prompt_call">>), Str(READWISE_SEARCH), R2, Obj("ok")),
   MkRequest(Str(<<"prompt_call">>), Str(GET_TAGS), R1, Obj("ok"))}

ConcurrentPromises ==
  {Fulfilled(MkResult("object", "content+id", Books, Str(<<"other">>), FALSE)),
   Fulfilled(MkResult("object", "raw", Absent, Absent, FALSE)),
   Rejected(MkError(TRUE, TRUE, <<"boom">>, Absent, NoDetails))}

-----------------------------------------------------------------------------
(* The SSE adapter: setupSSERoutes *)

\* The most GET /sse connections.
MaxConn == 2

\* A transport instance is named by the connection it was created for.
Conns == 1..MaxConn

NoTransport == 0

\* What Date.now() and Math.random().toString(36).substr(2, 9) can give.
Nows == {"1700000000000"}
Randoms == {"k3x9q2m1a", "p0d8r7s6b"}

\* `sse-${Date.now()}-${Math.random().toString(36).substr(2, 9)}`
SessionId(now, random) == <<"sse-", now, "-", random>>

SessionIds == {SessionId(now, random) : now \in Nows, random \in Randoms}

\* One GET /sse connection.  phase: where its handler stands; sessionId:
\* the identifier the handler generated; open: the client's connection is
\* open; closed: the transport was closed; errored: the transport
\* reported an error.
Connection(phase, sessionId, open, closed, errored) ==
  [phase |-> phase, sessionId |-> sessionId, open |-> open, closed |-> closed,
   errored |-> errored]

NoConnection == Connection("none", <<>>, FALSE, FALSE, FALSE)

\* An HTTP response: its status and the error of its JSON body.
HttpResponse(status, etype, code, message) ==
  [status |-> status, etype |-> etype, code |-> code, message |-> message]

NoHttpResponse == HttpResponse(0, "", <<>>, <<>>)

\* A handled POST /messages: its sessionId query parameter, its response
\* and the transport whose handlePostMessage was called for it.
Post(sessionId, response, transport) ==
  [sessionId |-> sessionId, response |-> response, transport |-> transport]

NoPost == Post(Absent, NoHttpResponse, NoTransport)

-----------------------------------------------------------------------------
(* The Streamable HTTP endpoint: ALL /mcp *)

\* The most /mcp requests.
MaxMcp == 2

\* A /mcp request, and the transport it creates, is named by its number.
McpRequests == 1..MaxMcp

\* What randomUUID() can give to a transport's sessionIdGenerator.
Uuids == {"5f2b7c1e", "a93d04f8"}

\* (transport as any).sessionId read after mcpServer.connect(transport):
\* undefined, or an identifier the transport generated.
NewSessionIds == {Absent} \cup {Str(<<u>>) : u \in Uuids}

\* The mcp-session-id request headers: none, an empty one, and the
\* identifiers a transport can generate, each of which names no session
\* until a transport with it was stored.
McpSessionHeaders == {Absent, Str(<<>>)} \cup {Str(<<u>>) : u \in Uuids}

\* One /mcp request.  phase: where its handler stands; header: its
\* mcp-session-id request header; transport: the handler's transport
\* variable; created: the handler created a transport and connected it to
\* the MCP server; sessionHeader: the mcp-session-id response header the
\* handler set; response: the response written.
McpRequest(phase, header, transport, created, sessionHeader, response) ==
  [phase |-> phase, header |-> header, transport |-> transport, created |-> created,
   sessionHeader |-> sessionHeader, response |-> response]

NoMcpRequest == McpRequest("none", Absent, NoTransport, FALSE, Absent, NoHttpResponse)

-----------------------------------------------------------------------------
(* The token gate: createAuthMiddleware *)

\* Tokens, as sequences of characters: the empty one, the configured
\* one, one of the same length, a shorter one, and one of a single
\* character that UTF-8 encodes in as many bytes as the configured one has.
Secret == <<"k", "1">>
Tokens == {<<>>, Secret, <<"k", "2">>, <<"k">>, <<"\\u00e9">>}

\* The UTF-8 encoding of a character
Utf8(ch) ==
  CASE ch = "k" -> <<107>>
    [] ch = "1" -> <<49>>
    [] ch = "2" -> <<50>>
    [] ch = "\\u00e9" -> <<195, 169>>

\* Buffer.from(string)
RECURSIVE BufferFrom(_)
BufferFrom(string) ==
  IF string = <<>> THEN <<>> ELSE Utf8(Head(string)) \o BufferFrom(Tail(string))

\* timingSafeEqual(a, b), for buffers of equal length
timingSafeEqual(a, b) == \A i \in 1..Len(a) : a[i] = b[i]

BEARER == "Bearer "

\* The Authorization request headers: none, Bearer with each token, and
\* another scheme.
Authorizations ==
  {Absent, Str(<<"Basic ">> \o Secret)} \cup {Str(<<BEARER>> \o token) : token \in Tokens}

\* req.query.token: none, each token, and a repeated parameter (an array).
QueryTokens == {Absent, Arr} \cup {Str(token) : token \in Tokens}

\* process.env.SERVER_AUTH_TOKEN
ServerAuthTokens == {Absent, Str(<<>>), Str(Secret)}

\* The methods of the requests to each gated endpoint
Methods(endpoint) ==
  CASE endpoint = "/sse" -> {"GET", "OPTIONS"}
    [] endpoint = "/messages" -> {"POST", "OPTIONS"}
    [] endpoint = "/mcp" -> {"GET", "POST", "OPTIONS"}

\* A request that came to the gated endpoints and its answer.  passed: the
\* route handler was reached.
Gated(endpoint, method, authorization, queryToken, response, passed) ==
  [endpoint |-> endpoint, method |-> method,
   authorization |-> authorization, queryToken |-> queryToken,
   response |-> response, passed |-> passed]

NoGated == Gated("", "", Absent, Absent, NoHttpResponse, FALSE)

-----------------------------------------------------------------------------
(* The process: main, start() and GET /health *)

\* The most uncaught exceptions and unhandled rejections.
MaxFaults == 2

\* The exit status of a process that has not exited
Running == -1

\* A field of a response body that tells of the names of a registry: the
\* array of the names, or their number, or no such field.
NameList(names) == [t |-> "array", names |-> names, length |-> Cardinality(names)]
NameCount(names) == [t |-> "number", names |-> {}, length |-> Cardinality(names)]
NoNames == [t |-> "absent", names |-> {}, length |-> 0]

\* What GET /health answers: its status code and the ready, tools and
\* prompts fields of its body; seq tells consecutive answers apart.
Health(seq, status, ready, tools, prompts) ==
  [seq |-> seq, status |-> status, ready |-> ready, tools |-> tools,
   prompts |-> prompts]

NoHealth == Health(0, 0, FALSE, NoNames, NoNames)

\* What GET /capabilities or the tools/list handler answers: the tools and
\* the prompts of its body; seq tells consecutive answers apart.
Listing(seq, endpoint, tools, prompts) ==
  [seq |-> seq, endpoint |-> endpoint, tools |-> tools, prompts |-> prompts]

NoListing == Listing(0, "", NoNames, NoNames)

-----------------------------------------------------------------------------
(* The Smithery entry point: annotations and tool handlers *)

\* { readOnlyHint, destructiveHint, idempotentHint }
Annotations(readOnlyHint, destructiveHint, idempotentHint) ==
  [readOnlyHint |-> readOnlyHint, destructiveHint |-> destructiveHint,
   idempotentHint |-> idempotentHint]

\* The lists of getToolAnnotations
deleteTools == {<<"delete_highlight">>, <<"delete_document">>, <<"bulk_delete_documents">>}
createTools ==
  {<<"create_highlight">>, <<"create_note">>, <<"create_video_highlight">>,
   <<"save_document">>, <<"bulk_save_documents">>}
updateTools ==
  {<<"update_highlight">>, <<"update_reading_progress">>, <<"update_video_position">>,
   <<"update_document">>, <<"bulk_update_documents">>, <<"document_tags">>,
   <<"bulk_tags">>}

\* getToolAnnotations without the list of the update operations.
getToolAnnotationsNoUpdates(toolName) ==
  IF toolName \in deleteTools THEN Annotations(FALSE, TRUE, TRUE)
  ELSE IF toolName \in createTools THEN Annotations(FALSE, FALSE, FALSE)
  ELSE Annotations(TRUE, FALSE, TRUE)

\* getToolAnnotations(toolName)
getToolAnnotations(toolName) ==
  IF toolName \in deleteTools THEN Annotations(FALSE, TRUE, TRUE)
  ELSE IF toolName \in createTools THEN Annotations(FALSE, FALSE, FALSE)
  ELSE IF toolName \in updateTools THEN Annotations(FALSE, FALSE, TRUE)
  ELSE Annotations(TRUE, FALSE, TRUE)

\* A tool registered with server.tool(name, description, schema,
\* annotations, handler)
ServerTool(name, annotations) == [name |-> name, annotations |-> annotations]

\* A content item: its type and its text field
Item(type, text) == [type |-> type, text |-> text]

\* A value a tool resolves with.  t is its type and key names it; content
\* is <<c>> if it has a content field c, result is <<r>> if it has a result
\* field r, and cyclic says that JSON.stringify throws on it.
Value(t, key, content, result, cyclic) ==
  [t |-> t, key |-> key, content |-> content, result |-> result, cyclic |-> cyclic]

NoValue == Value("absent", "", <<>>, <<>>, FALSE)

\* An instance of Error with the message
ErrorOf(message) == [t |-> "error", v |-> message]

\* What execute(args) settles with
Resolves(value) == [state |-> "fulfilled", value |-> value, error |-> Absent]
Rejects(error) == [state |-> "rejected", value |-> NoValue, error |-> error]

\* toolResult && typeof toolResult === 'object' && 'result' in toolResult
\*   ? toolResult.result : toolResult
ActualResult(toolResult) ==
  IF toolResult.t = "object" /\ toolResult.result # <<>>
  THEN toolResult.result[1] ELSE toolResult

\* JSON.stringify(value) of a serializable value; undefined for undefined
JSONText(value) ==
  CASE value.t = "absent" -> Absent
    [] value.t = "null" -> Str(<<"null">>)
    [] value.t = "string" -> Str(<<"\"", value.key, "\"">>)
    [] OTHER -> Str(<<"{", value.key, "}">>)

\* What a conversion or a handler comes back with: a content array, or the
\* error it threw (rejected with).
Returns(content) == [threw |-> FALSE, error |-> Absent, content |-> content]
Throws(error) == [threw |-> TRUE, error |-> error, content |-> <<>>]

\* toMCPResponse(result): a result that has content passes through, any
\* other becomes one text item with its JSON text.
toMCPResponse(result) ==
  IF result.t = "object" /\ result.content # <<>> THEN Returns(result.content[1])
  ELSE IF result.cyclic
    THEN Throws(ErrorOf(<<"Converting circular structure to JSON">>))
  ELSE Returns(<<Item("text", JSONText(result))>>)

\* error instanceof Error ? error.message : String(error)
ErrorText(error) == IF error.t = "error" THEN error.v ELSE ToStr(error)

\* content.map(item => item.type === 'text'
\*   ? { type: 'text', text: item.text || '' } : item)
MapContent(content) ==
  [i \in DOMAIN content |->
     IF content[i].type = "text"
     THEN Item("text", IF Truthy(content[i].text) THEN content[i].text ELSE Str(<<>>))
     ELSE content[i]]

\* ToolHandler without its catch block.
ToolHandlerUncaught(outcome) ==
  IF outcome.state = "rejected" THEN Throws(outcome.error)
  ELSE LET mcpResponse == toMCPResponse(ActualResult(outcome.value))
       IN IF mcpResponse.threw THEN mcpResponse
          ELSE Returns(MapContent(mcpResponse.content))

\* The handler server.tool is given, for what tool.execute(args || {})
\* settles with: what it returns, or the error it rejects with.
ToolHandler(outcome) ==
  LET mcpResponse == toMCPResponse(ActualResult(outcome.value))
      error == IF outcome.state = "rejected" THEN outcome.error ELSE mcpResponse.error
  IN IF outcome.state = "rejected" \/ mcpResponse.threw
     THEN Returns(<<Item("text", Str(ErrorText(error)))>>)
     ELSE Returns(MapContent(mcpResponse.content))

\* A call of the handler of a tool
ToolCall(tool, outcome, returned) ==
  [tool |-> tool, outcome |-> outcome, returned |-> returned]

NoToolCall == ToolCall(<<>>, Rejects(Absent), Returns(<<>>))

\* The content a tool may answer with: text items with a text, with an
\* empty text and without one, and an item of another type.
Contents ==
  {<<Item("text", Str(<<"3 books">>))>>,
   <<Item("text", Str(<<>>)), Item("image", Absent), Item("text", Absent)>>,
   <<>>}

\* What the tools resolve with: a wrapper { result } around an object, a
\* content-shaped object, null, undefined and a cyclic object; and the same
\* values without a wrapper, and a string.
PlainValues ==
  {Value("object", "books", <<>>, <<>>, FALSE), Value("null", "null", <<>>, <<>>, FALSE),
   Value("absent", "undefined", <<>>, <<>>, FALSE),
   Value("string", "done", <<>>, <<>>, FALSE),
   Value("object", "cyclic", <<>>, <<>>, TRUE)}
   \cup {Value("object", "content", <<content>>, <<>>, FALSE) : content \in Contents}
ToolResults ==
  PlainValues \cup {Value("object", "wrapper", <<>>, <<value>>, FALSE) : value \in PlainValues}

\* What the tools reject with: errors with and without a message, a string,
\* undefined, null and an object that is no Error.
ThrownValues ==
  {ErrorOf(<<"Rate limited">>), ErrorOf(<<>>), Str(<<"quota">>), Absent, Null, Obj("e")}

ToolOutcomes ==
  {Resolves(value) : value \in ToolResults} \cup {Rejects(error) : error \in ThrownValues}

-----------------------------------------------------------------------------
(* The port: the yargs middleware of main and the constructor *)

\* default: 8081 of the port option, and the port of the constructor's
\* fallback and of the MCP inspector
DefaultPort == 8081
InspectorPort == 3000

\* The first number that is no port
PortLimit == 65536

\* A JavaScript value met where a port is expected.  A number is told by
\* the greatest integer not above it (floor) and whether it equals it
\* (whole); NaN is a number; a repeated --port option gives an array.
PortNumber(floor, whole) == [t |-> "number", nan |-> FALSE, floor |-> floor, whole |-> whole]
NaN == [t |-> "number", nan |-> TRUE, floor |-> 0, whole |-> FALSE]
PortArray == [t |-> "object", nan |-> FALSE, floor |-> 0, whole |-> FALSE]
NoPort == [t |-> "undefined", nan |-> FALSE, floor |-> 0, whole |-> FALSE]

\* typeof x === 'number' && !isNaN(x) && x >= 0 && x < 65536
IsPort(x) == x.t = "number" /\ ~x.nan /\ x.floor >= 0 /\ x.floor < PortLimit

\* The value of a decimal digit; -1 for any other character.
DigitOf(ch) ==
  CASE ch = "0" -> 0 [] ch = "1" -> 1 [] ch = "2" -> 2 [] ch = "3" -> 3
    [] ch = "4" -> 4 [] ch = "5" -> 5 [] ch = "6" -> 6 [] ch = "7" -> 7
    [] ch = "8" -> 8 [] ch = "9" -> 9 [] OTHER -> -1

\* The number the leading decimal digits of s spell after the digits that
\* spelt n; seen: a digit was read.
RECURSIVE LeadingDigits(_, _, _)
LeadingDigits(s, n, seen) ==
  IF s = <<>> \/ DigitOf(Head(s)) < 0
  THEN IF seen THEN PortNumber(n, TRUE) ELSE NaN
  ELSE LeadingDigits(Tail(s), 10 * n + DigitOf(Head(s)), TRUE)

\* -x
Negated(x) == IF x.nan THEN x ELSE PortNumber(0 - x.floor, TRUE)

\* parseInt(s, 10) of a string given as its characters: white space is
\* skipped, a sign is taken, and the digits up to the first other
\* character are read.
RECURSIVE parseInt(_)
parseInt(s) ==
  IF s = <<>> THEN NaN
  ELSE IF Head(s) = WS THEN parseInt(Tail(s))
  ELSE IF Head(s) = "-" THEN Negated(LeadingDigits(Tail(s), 0, FALSE))
  ELSE IF Head(s) = "+" THEN LeadingDigits(Tail(s), 0, FALSE)
  ELSE LeadingDigits(s, 0, FALSE)

\* What the process got: whether --port was passed, argv.port as yargs
\* parsed it (the default when it was not passed), and process.env.PORT.
Cli(explicit, portOption, PORT) ==
  [explicit |-> explicit, port |-> portOption, PORT |-> PORT]

\* No --port and no PORT
DefaultCli == Cli(FALSE, PortNumber(DefaultPort, TRUE), Absent)

\* The values yargs gives argv.port for a --port that was passed
PortOptions ==
  {PortNumber(0, TRUE), PortNumber(80, TRUE), PortNumber(InspectorPort, TRUE),
   PortNumber(DefaultPort, TRUE), PortNumber(PortLimit - 1, TRUE),
   PortNumber(PortLimit, TRUE), PortNumber(-1, TRUE), PortNumber(80, FALSE),
   PortNumber(-1, FALSE), NaN, PortArray}

\* The values of process.env.PORT
PortVariables ==
  {Absent, Str(<<>>), Str(<<"3", "0", "0", "0">>), Str(<<"8", "0", "8", "1">>),
   Str(<<"0">>), Str(<<"6", "5", "5", "3", "6">>), Str(<<"-", "1">>),
   Str(<<"8", "0", ".", "5">>), Str(<<"a", "b", "c">>), Str(<<WS, "8", "0">>)}

Clis ==
  {Cli(FALSE, PortNumber(DefaultPort, TRUE), PORT) : PORT \in PortVariables}
  \cup {Cli(TRUE, portOption, PORT) : portOption \in PortOptions, PORT \in PortVariables}

\* .middleware((argv) => { ... }): argv.port after the middleware, from
\* argv.port before it and process.env.PORT.
Middleware(portOption, PORT) ==
  LET envPort == parseInt(PORT.v)
      fromEnv == IF portOption = PortNumber(DefaultPort, TRUE) /\ Truthy(PORT)
                    /\ ~envPort.nan /\ envPort.floor >= 0 /\ envPort.floor < PortLimit
                 THEN envPort ELSE portOption
  IN IF fromEnv.t # "number" \/ fromEnv.nan \/ fromEnv.floor < 0
        \/ fromEnv.floor >= PortLimit
     THEN PortNumber(DefaultPort, TRUE) ELSE fromEnv

\* this.port of the constructor called with port, under the MCP inspector
\* or not.
ConstructorPort(inspector, portArgument) ==
  LET resolvedPort == IF inspector THEN PortNumber(InspectorPort, TRUE) ELSE portArgument
  IN IF resolvedPort.t = "number" /\ ~resolvedPort.nan /\ resolvedPort.floor >= 0
        /\ resolvedPort.floor < PortLimit
     THEN resolvedPort ELSE PortNumber(InspectorPort, TRUE)

\* main was started without --port and without PORT, and the server is
\* constructed.
InitEntry ==
  /\ cli = DefaultCli
  /\ argvPort = Middleware(cli.port, cli.PORT)
  /\ port = ConstructorPort(isMCPInspector, argvPort)

\* The state of the HTTP endpoints after construction.
InitHttp ==
  /\ streamableTransports = <<>>
  /\ mcp = [r \in McpRequests |-> NoMcpRequest]
  /\ closedTransports = {}
  /\ stopped = FALSE
  /\ gate = NoGated
  /\ startPromise = "none"
  /\ exitCode = Running
  /\ hooks = FALSE
  /\ faults = 0
  /\ health = NoHealth
  /\ listing = NoListing
  /\ stdoutOpen = TRUE
  /\ uncaught = 0
  /\ serverTools = <<>>
  /\ toolCall = NoToolCall

-----------------------------------------------------------------------------
(* Specifications *)

\* The state after construction, whatever SERVER_AUTH_TOKEN is.
InitServer ==
  /\ toolRegistry = RegisteredTools
  /\ promptRegistry = RegisteredPrompts
  /\ pc = [s \in Slots |-> "idle"]
  /\ via = [s \in Slots |-> "none"]
  /\ request = [s \in Slots |-> NoRequest]
  /\ settled = [s \in Slots |-> NoPromise]
  /\ calls = [s \in Slots |-> <<>>]
  /\ trace = [s \in Slots |-> <<>>]
  /\ order = <<>>
  /\ argvTransport = "sse"
  /\ isMCPInspector = FALSE
  /\ isReady = FALSE
  /\ stdinHandler = FALSE
  /\ stream = <<>>
  /\ consumed = 0
  /\ stdout = <<>>
  /\ stderr = <<>>
  /\ sseTransports = <<>>
  /\ sse = [c \in Conns |-> NoConnection]
  /\ posted = 0
  /\ lastPost = NoPost
  /\ InitHttp
  /\ InitEntry

\* The server constructed without SERVER_AUTH_TOKEN.
Init ==
  /\ InitServer
  /\ authToken = Null

\* One request at a time, over every shape of request.
Next ==
  \/ /\ \E req \in Requests, cbThrows \in BOOLEAN :
          \E outcome \in ValidateOutcomes(req.parameters) :
            CallHandleMCPRequest(1, req, outcome, cbThrows)
     /\ UNCHANGED adapterVars
  \/ /\ \E name \in SdkNames, args \in SdkArgs : SdkCallTool(1, name, args)
     /\ UNCHANGED adapterVars
  \/ /\ \E promise \in Promises : ExecuteSettles(1, promise)
     /\ UNCHANGED adapterVars
  \/ /\ \E cbThrows \in BOOLEAN : ThenHandler(1, cbThrows)
     /\ UNCHANGED adapterVars
  \/ /\ \E cbThrows \in BOOLEAN : CatchHandler(1, cbThrows)
     /\ UNCHANGED adapterVars
  \/ /\ SdkResume(1)
     /\ UNCHANGED adapterVars

Spec == Init /\ [][Next]_vars

\* Several requests in flight at once, their executions settling in any order.
NextConcurrent ==
  \/ /\ \E s \in Slots, req \in ConcurrentRequests, cbThrows \in BOOLEAN :
          \E outcome \in ValidateOutcomes(req.parameters) :
            CallHandleMCPRequest(s, req, outcome, cbThrows)
     /\ UNCHANGED adapterVars
  \/ /\ \E s \in Slots, promise \in ConcurrentPromises : ExecuteSettles(s, promise)
     /\ UNCHANGED adapterVars
  \/ /\ \E s \in Slots, cbThrows \in BOOLEAN : ThenHandler(s, cbThrows)
     /\ UNCHANGED adapterVars
  \/ /\ \E s \in Slots, cbThrows \in BOOLEAN : CatchHandler(s, cbThrows)
     /\ UNCHANGED adapterVars

SpecConcurrent == Init /\ [][NextConcurrent]_vars


-----------------------------------------------------------------------------
(* The stdio adapter: setupStdioTransport *)

\* this.transportType = isMCPInspector ? 'sse' : transport
TransportType == IF isMCPInspector THEN "sse" ELSE argvTransport

\* LoggerTransport of a logger that always prints with console.log.
LoggerTransportConsoleLog == "stdout"

\* transport: argv.transport === 'sse' ? console.log : console.error
\* The stream the logger's lines go to.
LoggerTransport == IF argvTransport = "sse" THEN "stdout" ELSE "stderr"

NoResponse == [SuccessResponse(Absent, Absent) EXCEPT !.kind = "none"]

\* process.stdout.write(JSON.stringify(response) + '\n'): one write, of the
\* JSON text of the response followed by a newline.
EnvelopeWrite(response) ==
  [kind |-> "envelope", json |-> response, level |-> "", tail |-> <<NL>>]

\* One line printed by the logger at this level.
LogWrite(level) == [kind |-> "log", json |-> NoResponse, level |-> level, tail |-> <<NL>>]

\* n lines printed by logger.info
InfoLines(n) == [i \in 1..n |-> LogWrite("info")]

\* The logger's lines go to its transport, and the envelopes, written after
\* them, to standard output.
Emit(logs, envelopes) ==
  /\ stdout' = stdout \o (IF LoggerTransport = "stdout" THEN logs ELSE <<>>) \o envelopes
  /\ stderr' = stderr \o (IF LoggerTransport = "stderr" THEN logs ELSE <<>>)

\* What the response callback of the adapter wrote in this step for
\* request s: the response it was invoked with, unless it threw.
CallbackWrites(s) ==
  IF Len(calls'[s]) > Len(calls[s]) /\ ~calls'[s][Len(calls'[s])].threw
  THEN <<EnvelopeWrite(calls'[s][Len(calls'[s])].response)>>
  ELSE <<>>

\* A JSON text, cut in two pieces, and the value JSON.parse gives for it.
JsonText(open, close, value) == [open |-> open, close |-> close, value |-> value]

Q1 == MkRequest(Str(<<"tool_call">>), Str(GET_TAGS), R1, Obj("ok"))
Q2 == MkRequest(Str(<<"tool_call">>), Str(GET_BOOKS), R2, Obj("bad1"))
Q3 == MkRequest(Str(<<"tool_call">>), Str(GET_BOOKS), R2, Null)

\* The JSON texts a client sends: three requests and the text null.
JsonTexts ==
  {JsonText("{q1", "q1}", Q1), JsonText("{q2", "q2}", Q2), JsonText("{q3", "q3}", Q3),
   JsonText("nu", "ll", NonObjectRequest)}

GARBAGE == "oops"

\* JSON.parse(text) returns a value.
IsJsonText(text) == \E j \in JsonTexts : text = <<j.open, j.close>>

\* JSON.parse(text)
JSONParse(text) == (CHOOSE j \in JsonTexts : text = <<j.open, j.close>>).value

UNEXPECTED_END == <<"Unexpected end of JSON input">>
UNEXPECTED_TOKEN == <<"Unexpected token in JSON">>

\* The SyntaxError JSON.parse(text) throws.
SyntaxErrorOf(text) ==
  MkError(TRUE, TRUE,
          IF \E j \in JsonTexts : text = <<j.open>> THEN UNEXPECTED_END
          ELSE UNEXPECTED_TOKEN,
          Absent, NoDetails)

\* The error a throwing validator throws.
ValidatorError ==
  MkError(TRUE, TRUE, <<"Cannot read properties of null (reading 'page')">>,
          Absent, NoDetails)

\* StdinErrorResponse with a code of its own for parse errors.
StdinErrorResponseParseError(error) ==
  ErrorResponse("transport", <<"parse_error">>,
                IF error.isError THEN error.message ELSE <<"Invalid request">>,
                FALSE, <<>>, Str(<<"unknown">>))

\* The errorResponse of the catch block of the 'data' listener.
StdinErrorResponse(error) ==
  ErrorResponse("transport", <<"invalid_request">>,
                IF error.isError THEN error.message ELSE <<"Invalid request">>,
                FALSE, <<>>, Str(<<"unknown">>))

\* The lines a client writes: a JSON text, text that is no JSON, a blank line.
JsonLine(j) == <<j.open, j.close, NL>>
GarbageLine == <<GARBAGE, NL>>
BlankLine == <<WS, NL>>

Lines == {JsonLine(j) : j \in JsonTexts} \cup {GarbageLine, BlankLine}

\* The most lines a client writes.
MaxLines == 2

RECURSIVE StreamsOf(_)
StreamsOf(n) ==
  IF n = 0 THEN {<<>>}
  ELSE LET shorter == StreamsOf(n - 1)
       IN shorter \cup {text \o line : text \in shorter, line \in Lines}

Streams == StreamsOf(MaxLines)

\* The callback of server.listen in start(): it logs, installs the stdin
\* listener in stdio mode and marks the server ready.  The logger prints
\* at level INFO.
Listen ==
  /\ ~isReady
  /\ isReady' = TRUE
  /\ stdinHandler' = (TransportType = "stdio")
  /\ Emit(InfoLines(IF TransportType = "stdio" THEN 9 ELSE 8), <<>>)
  /\ UNCHANGED <<dispatchVars, argvTransport, isMCPInspector, stream, consumed>>

\* process.stdin.on('data', ...) run on the next n pieces of the stream.
StdinData(n) ==
  /\ stdinHandler
  /\ n \in 1..(Len(stream) - consumed)
  /\ consumed' = consumed + n
  /\ LET input == Trim(SubSeq(stream, consumed + 1, consumed + n))
         s == Len(order) + 1
     IN IF input = <<>>
          THEN UNCHANGED <<dispatchVars, stdout, stderr>>
        ELSE IF ~IsJsonText(input)
          THEN /\ Emit(<<LogWrite("error")>>,
                       <<EnvelopeWrite(StdinErrorResponse(SyntaxErrorOf(input)))>>)
               /\ UNCHANGED dispatchVars
        ELSE /\ s \in Slots
             /\ \E outcome \in ValidateOutcomes(JSONParse(input).parameters) :
                  CallHandleMCPRequest(s, JSONParse(input), outcome, FALSE)
             /\ IF pc'[s] = "threw"
                  THEN Emit(<<LogWrite("error")>>,
                            <<EnvelopeWrite(StdinErrorResponse(ValidatorError))>>)
                ELSE IF pc'[s] = "executing" THEN Emit(<<>>, <<>>)
                ELSE Emit(<<LogWrite("warn")>>, CallbackWrites(s))
  /\ UNCHANGED <<argvTransport, isMCPInspector, isReady, stdinHandler, stream>>

\* The execution started for a request read from stdin settles.
StdioExecuteSettles(s, promise) ==
  /\ ExecuteSettles(s, promise)
  /\ UNCHANGED stdioVars

\* The .then handler of a request read from stdin.  Its callback throws
\* when JSON.stringify cannot serialize the content of the response.
StdioThen(s) ==
  /\ pc[s] = "fulfilled"
  /\ ThenHandler(s, settled[s].result.cyclic)
  /\ Emit(<<>>, CallbackWrites(s))
  /\ UNCHANGED <<argvTransport, isMCPInspector, isReady, stdinHandler, stream, consumed>>

\* The .catch handler of a request read from stdin.
StdioCatch(s) ==
  /\ CatchHandler(s, FALSE)
  /\ Emit(<<LogWrite("error")>>, CallbackWrites(s))
  /\ UNCHANGED <<argvTransport, isMCPInspector, isReady, stdinHandler, stream, consumed>>

\* What the executions of SpecStdio settle with: a result with content, a
\* result whose content cannot be serialized, an Error.
StdioPromises ==
  {Fulfilled(MkResult("object", "content", Books, Absent, FALSE)),
   Fulfilled(MkResult("object", "content", Books, Absent, TRUE)),
   Rejected(MkError(TRUE, TRUE, <<"boom">>, Absent, NoDetails))}

InitStdio ==
  /\ toolRegistry = RegisteredTools
  /\ promptRegistry = RegisteredPrompts
  /\ pc = [s \in Slots |-> "idle"]
  /\ via = [s \in Slots |-> "none"]
  /\ request = [s \in Slots |-> NoRequest]
  /\ settled = [s \in Slots |-> NoPromise]
  /\ calls = [s \in Slots |-> <<>>]
  /\ trace = [s \in Slots |-> <<>>]
  /\ order = <<>>
  /\ argvTransport \in {"stdio", "sse"}
  /\ isMCPInspector \in BOOLEAN
  /\ isReady = FALSE
  /\ stdinHandler = FALSE
  /\ stream \in Streams
  /\ consumed = 0
  /\ stdout = <<>>
  /\ stderr = <<>>
  /\ sseTransports = <<>>
  /\ sse = [c \in Conns |-> NoConnection]
  /\ posted = 0
  /\ lastPost = NoPost
  /\ InitHttp
  /\ InitEntry
  /\ authToken = Null

NextStdio ==
  \/ Listen /\ UNCHANGED <<sseVars, httpVars>>
  \/ \E n \in 1..Len(stream) : StdinData(n) /\ UNCHANGED <<sseVars, httpVars>>
  \/ \E s \in Slots, promise \in StdioPromises :
       StdioExecuteSettles(s, promise) /\ UNCHANGED <<sseVars, httpVars>>
  \/ \E s \in Slots : StdioThen(s) /\ UNCHANGED <<sseVars, httpVars>>
  \/ \E s \in Slots : StdioCatch(s) /\ UNCHANGED <<sseVars, httpVars>>

\* The server started from the command line, reading requests from stdin.
SpecStdio == InitStdio /\ [][NextStdio]_vars

-----------------------------------------------------------------------------
(* The SSE adapter: GET /sse and POST /messages *)

\* sseTransports.set(key, value)
MapSet(map, key, value) ==
  [k \in DOMAIN map \cup {key} |-> IF k = key THEN value ELSE map[k]]

\* sseTransports.delete(key)
MapDelete(map, key) == [k \in DOMAIN map \ {key} |-> map[k]]

\* sseTransports.get(sessionId), NoTransport standing for undefined
MapGet(map, sessionId) ==
  IF sessionId.t = "string" /\ sessionId.v \in DOMAIN map THEN map[sessionId.v]
  ELSE NoTransport

MissingSessionIdResponse ==
  HttpResponse(400, "validation", <<"missing_session_id">>,
               <<"Missing required query parameter: sessionId">>)

\* SessionNotFoundResponse answering as for a missing parameter.
SessionNotFoundAsMissing(sessionId) ==
  HttpResponse(400, "validation", <<"missing_session_id">>,
               <<"Missing required query parameter: sessionId">>)

SessionNotFoundResponse(sessionId) ==
  HttpResponse(404, "transport", <<"session_not_found">>,
               <<"No active SSE connection found for sessionId: ">> \o ToStr(sessionId))

ServerErrorResponse(error) ==
  HttpResponse(500, "transport", <<"server_error">>, ErrorMessage(error))

\* The response transport.handlePostMessage writes for a message it took.
Accepted == HttpResponse(202, "", <<>>, <<"Accepted">>)

\* res.json({ jsonrpc: '2.0', id: req.body?.id || null, result: {} })
Acknowledged == HttpResponse(200, "", <<>>, <<>>)

\* typeof transport.handlePostMessage === 'function'
HasHandlePostMessage == TRUE

\* The error a throwing handlePostMessage throws
PostMessageError == MkError(TRUE, TRUE, <<"SSE connection not established">>, Absent, NoDetails)

\* The listeners of 967-985 are installed for connection c.
HandlersInstalled(c) == sse[c].phase = "established"

\* app.get('/sse') up to its first await: the transport is created and
\* stored under a generated sessionId, and transport.start() is called.
\* Connections are numbered in the order of their GET requests.
GetSse(c, now, random) ==
  /\ sse[c].phase = "none"
  /\ \A d \in 1..(c - 1) : sse[d].phase # "none"
  /\ LET sessionId == SessionId(now, random)
     IN /\ sseTransports' = MapSet(sseTransports, sessionId, c)
        /\ sse' = [sse EXCEPT ![c] = Connection("starting", sessionId, TRUE, FALSE, FALSE)]
  /\ UNCHANGED <<posted, lastPost>>

\* await transport.start() settles; on success mcpServer.connect(transport)
\* is called, on failure the catch block logs (the headers are sent).
TransportStarted(c, ok) ==
  /\ sse[c].phase = "starting"
  /\ sse' = [sse EXCEPT ![c].phase = IF ok THEN "connecting" ELSE "failed"]
  /\ UNCHANGED <<sseTransports, posted, lastPost>>

\* await this.mcpServer.connect(transport) settles; on success the
\* listeners for close, onerror and onclose are installed.
ServerConnected(c, ok) ==
  /\ sse[c].phase = "connecting"
  /\ sse' = [sse EXCEPT ![c].phase = IF ok THEN "established" ELSE "failed"]
  /\ UNCHANGED <<sseTransports, posted, lastPost>>

\* The client's connection closes.  req.on('close', ...) runs when it is
\* installed: the entry is deleted and the transport closed, whose onclose
\* deletes the entry again.
ClientDisconnect(c) ==
  /\ sse[c].open
  /\ IF HandlersInstalled(c)
     THEN /\ sseTransports' = MapDelete(sseTransports, sse[c].sessionId)
          /\ sse' = [sse EXCEPT ![c].open = FALSE, ![c].closed = TRUE]
     ELSE /\ sse' = [sse EXCEPT ![c].open = FALSE]
          /\ UNCHANGED sseTransports
  /\ UNCHANGED <<posted, lastPost>>

\* transport.onerror = (error) => { ...; sseTransports.delete(sessionId) }
TransportError(c) ==
  /\ HandlersInstalled(c)
  /\ ~sse[c].closed
  /\ sseTransports' = MapDelete(sseTransports, sse[c].sessionId)
  /\ sse' = [sse EXCEPT ![c].errored = TRUE]
  /\ UNCHANGED <<posted, lastPost>>

\* transport.onclose = () => { ...; sseTransports.delete(sessionId) },
\* called when the transport is closed by another party.
TransportClosed(c) ==
  /\ HandlersInstalled(c)
  /\ ~sse[c].closed
  /\ sseTransports' = MapDelete(sseTransports, sse[c].sessionId)
  /\ sse' = [sse EXCEPT ![c].closed = TRUE]
  /\ UNCHANGED <<posted, lastPost>>

\* app.post('/messages') with req.query.sessionId = sessionId, run on the
\* store map; throws: handlePostMessage throws.  It gives the response and
\* the transport whose handlePostMessage was called.
postMessages(map, sessionId, throws) ==
  LET transport == MapGet(map, sessionId)
  IN IF ~Truthy(sessionId)
       THEN Post(sessionId, MissingSessionIdResponse, NoTransport)
     ELSE IF transport = NoTransport
       THEN Post(sessionId, SessionNotFoundResponse(sessionId), NoTransport)
     ELSE IF HasHandlePostMessage
       THEN Post(sessionId,
                 IF throws THEN ServerErrorResponse(PostMessageError) ELSE Accepted,
                 transport)
     ELSE Post(sessionId, Acknowledged, NoTransport)

\* A client sends POST /messages.  Only a call of handlePostMessage can
\* throw.
PostMessages(sessionId, throws) ==
  /\ throws => MapGet(sseTransports, sessionId) # NoTransport
  /\ posted' = 1 - posted
  /\ lastPost' = postMessages(sseTransports, sessionId, throws)
  /\ UNCHANGED <<sseTransports, sse>>

\* The sessionId query parameters of POST /messages: none, an empty one,
\* the identifiers the server can generate, one it never generates.
QuerySessionIds ==
  {Absent, Str(<<>>), Str(<<"sse-0-unknown">>)} \cup {Str(id) : id \in SessionIds}

NextSSE ==
  \/ \E c \in Conns, now \in Nows, random \in Randoms :
       GetSse(c, now, random) /\ UNCHANGED <<dispatchVars, stdioVars, httpVars>>
  \/ \E c \in Conns, ok \in BOOLEAN :
       TransportStarted(c, ok) /\ UNCHANGED <<dispatchVars, stdioVars, httpVars>>
  \/ \E c \in Conns, ok \in BOOLEAN :
       ServerConnected(c, ok) /\ UNCHANGED <<dispatchVars, stdioVars, httpVars>>
  \/ \E c \in Conns : ClientDisconnect(c) /\ UNCHANGED <<dispatchVars, stdioVars, httpVars>>
  \/ \E c \in Conns : TransportError(c) /\ UNCHANGED <<dispatchVars, stdioVars, httpVars>>
  \/ \E c \in Conns : TransportClosed(c) /\ UNCHANGED <<dispatchVars, stdioVars, httpVars>>
  \/ \E sessionId \in QuerySessionIds, throws \in BOOLEAN :
       PostMessages(sessionId, throws) /\ UNCHANGED <<dispatchVars, stdioVars, httpVars>>

\* The SSE routes of a server started with the sse transport.
SpecSSE == Init /\ [][NextSSE]_vars

-----------------------------------------------------------------------------
(* The Streamable HTTP endpoint: ALL /mcp, and stop() *)

\* The response transport.handleRequest writes for a request it took.
Handled == HttpResponse(200, "", <<>>, <<>>)

\* The errors mcpServer.connect and transport.handleRequest can throw
McpConnectError == MkError(TRUE, TRUE, <<"Already connected">>, Absent, NoDetails)
McpHandleError == MkError(TRUE, TRUE, <<"Bad Request">>, Absent, NoDetails)

\* How transport.handleRequest ends: it answers, it throws before it
\* wrote the response head, or it throws after.
HandleOutcomes == {"answers", "throws", "throwsAfterHeaders"}

\* HasSession finding no session.
HasSessionNever(map, header) == FALSE

\* sessionId && streamableTransports.has(sessionId)
HasSession(map, header) == Truthy(header) /\ header.v \in DOMAIN map

\* The transport of /mcp request r is connected to the MCP server.
McpConnected(r) == mcp[r].created /\ mcp[r].phase \in {"handling", "done"}
                   /\ mcp[r].transport = r

\* app.all('/mcp') up to its first settled await.  With a header that
\* names a stored session the stored transport is taken and its
\* handleRequest called; otherwise a transport is created and
\* mcpServer.connect(transport) called.  Requests are numbered in the
\* order of their arrival.
McpAll(r, header) ==
  /\ mcp[r].phase = "none"
  /\ \A q \in 1..(r - 1) : mcp[q].phase # "none"
  /\ mcp' = [mcp EXCEPT ![r] =
               IF HasSession(streamableTransports, header)
               THEN McpRequest("handling", header, MapGet(streamableTransports, header),
                               FALSE, Absent, NoHttpResponse)
               ELSE McpRequest("connecting", header, r, TRUE, Absent, NoHttpResponse)]
  /\ UNCHANGED <<streamableTransports, closedTransports, stopped>>

\* await this.mcpServer.connect(transport) settles.  On success the
\* transport's sessionId is read and, when truthy, stored and set as the
\* mcp-session-id response header, and transport.handleRequest is called;
\* on failure the catch block answers 500.
McpConnect(r, ok, newSessionId) ==
  /\ mcp[r].phase = "connecting"
  /\ ~ok => newSessionId = Absent
  /\ IF ~ok
     THEN /\ mcp' = [mcp EXCEPT ![r].phase = "done",
                                ![r].transport = NoTransport,
                                ![r].response = ServerErrorResponse(McpConnectError)]
          /\ UNCHANGED streamableTransports
     ELSE IF Truthy(newSessionId)
     THEN /\ streamableTransports' = MapSet(streamableTransports, newSessionId.v, r)
          /\ mcp' = [mcp EXCEPT ![r].phase = "handling",
                                ![r].sessionHeader = newSessionId]
     ELSE /\ mcp' = [mcp EXCEPT ![r].phase = "handling"]
          /\ UNCHANGED streamableTransports
  /\ UNCHANGED <<closedTransports, stopped>>

\* await transport.handleRequest(req, res, req.body) settles; the catch
\* block answers 500 when the response head was not sent.
McpHandled(r, outcome) ==
  /\ mcp[r].phase = "handling"
  /\ mcp' = [mcp EXCEPT ![r].phase = "done",
                        ![r].response = IF outcome = "throws"
                                        THEN ServerErrorResponse(McpHandleError)
                                        ELSE Handled]
  /\ UNCHANGED <<streamableTransports, closedTransports, stopped>>

\* The connection of the session of transport t closes or fails.  The
\* handler of /mcp installs no listener on the transport or the request,
\* so no code of the server runs.
McpTransportGone(t) ==
  /\ McpConnected(t)
  /\ t \notin closedTransports
  /\ closedTransports' = closedTransports \cup {t}
  /\ UNCHANGED <<streamableTransports, mcp, stopped>>

\* stop(): this.server.close(callback)
Stop ==
  /\ ~stopped
  /\ stopped' = TRUE
  /\ UNCHANGED <<streamableTransports, mcp, closedTransports>>

NextMcp ==
  \/ \E r \in McpRequests, header \in McpSessionHeaders :
       McpAll(r, header) /\ UNCHANGED <<dispatchVars, stdioVars, sseVars, authVars, procVars, boundaryVars, mainVars, smitheryVars>>
  \/ \E r \in McpRequests, ok \in BOOLEAN, newSessionId \in NewSessionIds :
       McpConnect(r, ok, newSessionId) /\ UNCHANGED <<dispatchVars, stdioVars, sseVars, authVars, procVars, boundaryVars, mainVars, smitheryVars>>
  \/ \E r \in McpRequests, outcome \in HandleOutcomes :
       McpHandled(r, outcome) /\ UNCHANGED <<dispatchVars, stdioVars, sseVars, authVars, procVars, boundaryVars, mainVars, smitheryVars>>
  \/ \E t \in McpRequests :
       McpTransportGone(t) /\ UNCHANGED <<dispatchVars, stdioVars, sseVars, authVars, procVars, boundaryVars, mainVars, smitheryVars>>
  \/ Stop /\ UNCHANGED <<dispatchVars, stdioVars, sseVars, authVars, procVars, boundaryVars, mainVars, smitheryVars>>

\* The /mcp route of a running server, and its shutdown.
SpecMcp == Init /\ [][NextMcp]_vars

-----------------------------------------------------------------------------
(* The token gate in front of /sse, /messages and /mcp *)

\* this.authToken = process.env.SERVER_AUTH_TOKEN || null
AuthTokenOf(env) == IF Truthy(env) THEN env ELSE Null

\* res.status(401).json({ error: 'Authentication required. ...' })
AuthRequired ==
  HttpResponse(401, "", <<>>, <<"Authentication required. Provide token via ",
                                "Authorization: Bearer <token> header or ",
                                "?token=<token> query parameter.">>)

\* res.status(403).json({ error: 'Invalid authentication token.' })
InvalidToken == HttpResponse(403, "", <<>>, <<"Invalid authentication token.">>)

\* next()
CallNext == NoHttpResponse

\* The answer to a preflight request, and to a request no route matches
Preflight == HttpResponse(204, "", <<>>, <<>>)
NoRoute == HttpResponse(404, "", <<>>, <<>>)

\* AuthMiddleware comparing the lengths only.
AuthMiddlewareLengthOnly(method, authorization, queryToken) ==
  LET headerToken == IF authorization.t = "string" /\ authorization.v # <<>>
                        /\ Head(authorization.v) = BEARER
                     THEN Str(Tail(authorization.v)) ELSE Null
      token == IF Truthy(headerToken) THEN headerToken
               ELSE IF TypeOf(queryToken) = "string" THEN queryToken ELSE Null
  IN IF method = "OPTIONS" THEN CallNext
     ELSE IF ~Truthy(token) THEN AuthRequired
     ELSE IF Len(BufferFrom(token.v)) # Len(BufferFrom(authToken.v)) THEN InvalidToken
     ELSE CallNext

\* AuthMiddleware taking the token parameter before the header.
AuthMiddlewareQueryFirst(method, authorization, queryToken) ==
  LET headerToken == IF authorization.t = "string" /\ authorization.v # <<>>
                        /\ Head(authorization.v) = BEARER
                     THEN Str(Tail(authorization.v)) ELSE Null
      qToken == IF TypeOf(queryToken) = "string" THEN queryToken ELSE Null
      token == IF Truthy(qToken) THEN qToken ELSE headerToken
      tokenBuf == BufferFrom(token.v)
      authBuf == BufferFrom(authToken.v)
  IN IF method = "OPTIONS" THEN CallNext
     ELSE IF ~Truthy(token) THEN AuthRequired
     ELSE IF Len(tokenBuf) # Len(authBuf) \/ ~timingSafeEqual(tokenBuf, authBuf)
       THEN InvalidToken
     ELSE CallNext

\* The middleware createAuthMiddleware returns: the response it writes,
\* or CallNext.
AuthMiddleware(method, authorization, queryToken) ==
  LET headerToken == IF authorization.t = "string" /\ authorization.v # <<>>
                        /\ Head(authorization.v) = BEARER
                     THEN Str(Tail(authorization.v)) ELSE Null
      qToken == IF TypeOf(queryToken) = "string" THEN queryToken ELSE Null
      token == IF Truthy(headerToken) THEN headerToken ELSE qToken
      tokenBuf == BufferFrom(token.v)
      authBuf == BufferFrom(authToken.v)
  IN IF method = "OPTIONS" THEN CallNext
     ELSE IF ~Truthy(token) THEN AuthRequired
     ELSE IF Len(tokenBuf) # Len(authBuf) \/ ~timingSafeEqual(tokenBuf, authBuf)
       THEN InvalidToken
     ELSE CallNext

\* The middleware is installed only when this.authToken is set.
Gate(method, authorization, queryToken) ==
  IF Truthy(authToken) THEN AuthMiddleware(method, authorization, queryToken)
  ELSE CallNext

\* The paths of this.app.use(['/sse', '/messages', '/mcp'], ...)
AuthPaths == {"/sse", "/messages", "/mcp"}

\* Mounted with the middleware on every path.
MountedOnEveryPath(endpoint) == TRUE

\* The middleware runs for the requests to the paths it is mounted on.
Mounted(endpoint) == endpoint \in AuthPaths

\* The routes setupRoutes registers outside the mounted paths
OAUTH_METADATA == "/.well-known/oauth-authorization-server"
OpenEndpoints == {"/", "/health", "/capabilities", OAUTH_METADATA}

\* res.status(404).json({ error: 'oauth_not_supported', message: ... })
OAuthNotSupported ==
  HttpResponse(404, "", <<"oauth_not_supported">>,
               <<"This server uses API key authentication, not OAuth">>)

\* The status the handler of an open route answers with: res.json(...) of
\* '/' and '/capabilities', the readiness status of '/health', the 404 of
\* the OAuth metadata route.
OpenRoute(endpoint) ==
  CASE endpoint = "/" -> HttpResponse(200, "", <<>>, <<>>)
    [] endpoint = "/capabilities" -> HttpResponse(200, "", <<>>, <<>>)
    [] endpoint = "/health" ->
         HttpResponse(IF isReady THEN 200 ELSE 503, "", <<>>, <<>>)
    [] endpoint = OAUTH_METADATA -> OAuthNotSupported

\* The route of the endpoint takes the method: app.get('/sse'),
\* app.post('/messages'), app.all('/mcp') behind app.options('/mcp'), and
\* app.get of each open route.
Routed(endpoint, method) ==
  CASE endpoint = "/sse" -> method = "GET"
    [] endpoint = "/messages" -> method = "POST"
    [] endpoint = "/mcp" -> method # "OPTIONS"
    [] endpoint \in OpenEndpoints -> method = "GET"

\* A request to a gated endpoint: the gate answers it, or lets it through
\* to the route handler, whose first step is Handler.
GatedRequest(endpoint, method, authorization, queryToken, Handler) ==
  LET response == IF Mounted(endpoint)
                  THEN Gate(method, authorization, queryToken) ELSE CallNext
      passed == response = CallNext /\ Routed(endpoint, method)
  IN /\ gate' = Gated(endpoint, method, authorization, queryToken,
                IF response # CallNext THEN response
                ELSE IF method = "OPTIONS" THEN Preflight
                ELSE IF ~passed THEN NoRoute
                ELSE NoHttpResponse,
                passed)
     /\ IF passed THEN Handler ELSE UNCHANGED <<sseVars, mcpVars>>
     /\ UNCHANGED authToken

\* A GET request to an open route: the middleware runs only if it is
\* mounted on the path, and the handler of the route answers.
OpenRequest(endpoint, authorization, queryToken) ==
  LET response == IF Mounted(endpoint)
                  THEN Gate("GET", authorization, queryToken) ELSE CallNext
      passed == response = CallNext
  IN /\ gate' = Gated(endpoint, "GET", authorization, queryToken,
                      IF passed THEN OpenRoute(endpoint) ELSE response, passed)
     /\ UNCHANGED <<authToken, sseVars, mcpVars>>

InitAuth ==
  /\ InitServer
  /\ authToken \in {AuthTokenOf(env) : env \in ServerAuthTokens}

\* What a request presents, as <<Authorization header, token parameter>>:
\* each header alone, each parameter alone, each Bearer header beside the
\* right parameter, the right header beside a wrong parameter, and another
\* scheme beside the right parameter.
Credentials ==
  {<<authorization, Absent>> : authorization \in Authorizations}
  \cup {<<Absent, queryToken>> : queryToken \in QueryTokens}
  \cup {<<Str(<<BEARER>> \o token), Str(Secret)>> : token \in Tokens}
  \cup {<<Str(<<BEARER>> \o Secret), Str(<<"k", "2">>)>>,
        <<Str(<<"Basic ">> \o Secret), Str(Secret)>>}

\* What a request to an open route presents: nothing, the right and a
\* wrong Bearer token, the right and a wrong token parameter.
OpenCredentials ==
  {<<Absent, Absent>>,
   <<Str(<<BEARER>> \o Secret), Absent>>, <<Str(<<BEARER, "k", "2">>), Absent>>,
   <<Absent, Str(Secret)>>, <<Absent, Str(<<"k", "2">>)>>}

\* The first step of each route handler behind the gate: GET /sse, POST
\* /messages with the identifier GET /sse generates, /mcp without a
\* session header.
NextAuth ==
  \/ \E method \in Methods("/sse"), credentials \in Credentials :
       /\ GatedRequest("/sse", method, credentials[1], credentials[2],
                       /\ \E c \in Conns, now \in Nows : GetSse(c, now, "k3x9q2m1a")
                       /\ UNCHANGED mcpVars)
       /\ UNCHANGED <<dispatchVars, stdioVars, procVars, boundaryVars, mainVars, smitheryVars>>
  \/ \E method \in Methods("/messages"), credentials \in Credentials :
       /\ GatedRequest("/messages", method, credentials[1], credentials[2],
                       /\ \E now \in Nows :
                            PostMessages(Str(SessionId(now, "k3x9q2m1a")), FALSE)
                       /\ UNCHANGED mcpVars)
       /\ UNCHANGED <<dispatchVars, stdioVars, procVars, boundaryVars, mainVars, smitheryVars>>
  \/ \E method \in Methods("/mcp"), credentials \in Credentials :
       /\ GatedRequest("/mcp", method, credentials[1], credentials[2],
                       /\ \E r \in McpRequests : McpAll(r, Absent)
                       /\ UNCHANGED sseVars)
       /\ UNCHANGED <<dispatchVars, stdioVars, procVars, boundaryVars, mainVars, smitheryVars>>
  \/ \E endpoint \in OpenEndpoints, credentials \in OpenCredentials :
       /\ OpenRequest(endpoint, credentials[1], credentials[2])
       /\ UNCHANGED <<dispatchVars, stdioVars, procVars, boundaryVars, mainVars, smitheryVars>>

\* The gated endpoints of a server constructed with or without
\* SERVER_AUTH_TOKEN.
SpecAuth == InitAuth /\ [][NextAuth]_vars

-----------------------------------------------------------------------------
(* The process: main, start(), GET /health and the process error hooks *)

LogError == LogWrite("error")

\* main calls server.start(): two info lines, the 'error' listener and
\* server.listen(...).
Start ==
  /\ startPromise = "none"
  /\ exitCode = Running
  /\ startPromise' = "pending"
  /\ Emit(InfoLines(2), <<>>)
  /\ UNCHANGED <<dispatchVars, argvTransport, isMCPInspector, isReady, stdinHandler,
                 stream, consumed>>
  /\ UNCHANGED <<exitCode, hooks, faults, health, listing>>

\* The routes setupRoutes() and setupSSERoutes() register; the constructor
\* calls both, whatever the transport type.
SetupRoutes == OpenEndpoints \cup {"/mcp"}
SetupSSERoutes == {"/sse", "/messages"}
Routes(transportType) == SetupRoutes \cup SetupSSERoutes

\* ListenSucceeds installing the stdin handler for every transport type.
ListenSucceedsAnyTransport ==
  /\ startPromise = "pending"
  /\ exitCode = Running
  /\ ~isReady
  /\ isReady' = TRUE
  /\ stdinHandler' = TRUE
  /\ Emit(InfoLines(9) \o InfoLines(2), <<>>)
  /\ startPromise' = "resolved"
  /\ hooks' = TRUE
  /\ UNCHANGED <<dispatchVars, argvTransport, isMCPInspector, stream, consumed>>
  /\ UNCHANGED <<exitCode, faults, health, listing>>

\* The bind succeeds: the listen callback runs and resolves the promise,
\* and main goes on after its await: two info lines, the heartbeat timer
\* and the listeners for SIGINT, SIGTERM, uncaughtException and
\* unhandledRejection.
ListenSucceeds ==
  /\ startPromise = "pending"
  /\ exitCode = Running
  /\ ~isReady
  /\ isReady' = TRUE
  /\ stdinHandler' = (TransportType = "stdio")
  /\ Emit(InfoLines(IF TransportType = "stdio" THEN 9 ELSE 8) \o InfoLines(2), <<>>)
  /\ startPromise' = "resolved"
  /\ hooks' = TRUE
  /\ UNCHANGED <<dispatchVars, argvTransport, isMCPInspector, stream, consumed>>
  /\ UNCHANGED <<exitCode, faults, health, listing>>

\* The server emits 'error' while main awaits start(): three error lines,
\* reject(...); the catch block of main logs and calls process.exit(1).
BindFails ==
  /\ startPromise = "pending"
  /\ exitCode = Running
  /\ startPromise' = "rejected"
  /\ Emit(<<LogError, LogError, LogError, LogError>>, <<>>)
  /\ exitCode' = 1
  /\ UNCHANGED <<dispatchVars, argvTransport, isMCPInspector, isReady, stdinHandler,
                 stream, consumed>>
  /\ UNCHANGED <<hooks, faults, health, listing>>

\* The server emits 'error' after start() has resolved: the listener logs;
\* its reject(...) has no effect on the settled promise.
ServerError ==
  /\ startPromise = "resolved"
  /\ exitCode = Running
  /\ faults < MaxFaults
  /\ faults' = faults + 1
  /\ Emit(<<LogError, LogError, LogError>>, <<>>)
  /\ UNCHANGED <<dispatchVars, argvTransport, isMCPInspector, isReady, stdinHandler,
                 stream, consumed>>
  /\ UNCHANGED <<startPromise, exitCode, hooks, health, listing>>

\* Fault with listeners that log and then end the process.
FaultTerminates ==
  /\ exitCode = Running
  /\ faults < MaxFaults
  /\ faults' = faults + 1
  /\ IF hooks
     THEN /\ Emit(<<LogError>>, <<>>)
          /\ exitCode' = 1
     ELSE /\ exitCode' = 1
          /\ UNCHANGED <<stdout, stderr>>
  /\ UNCHANGED <<dispatchVars, argvTransport, isMCPInspector, isReady, stdinHandler,
                 stream, consumed>>
  /\ UNCHANGED <<startPromise, hooks, health, listing>>

\* An uncaught exception or an unhandled rejection reaches the process.
\* The listeners main installed log it; without them the run time ends the
\* process with status 1.
Fault ==
  /\ exitCode = Running
  /\ faults < MaxFaults
  /\ faults' = faults + 1
  /\ IF hooks
     THEN /\ Emit(<<LogError>>, <<>>)
          /\ UNCHANGED exitCode
     ELSE /\ exitCode' = 1
          /\ UNCHANGED <<stdout, stderr>>
  /\ UNCHANGED <<dispatchVars, argvTransport, isMCPInspector, isReady, stdinHandler,
                 stream, consumed>>
  /\ UNCHANGED <<startPromise, hooks, health, listing>>

\* The signals main listens to, and the status of a process a signal ended.
Signals == {"SIGINT", "SIGTERM"}
KilledBy(signal) == IF signal = "SIGINT" THEN 130 ELSE 143

\* SIGINT or SIGTERM reaches the process. With the listeners of main,
\* shutdown() logs and calls server.stop(), which calls
\* this.server.close(callback) and is awaited; without them the signal ends
\* the process.
Signal(signal) ==
  /\ exitCode = Running
  /\ ~stopped
  /\ IF hooks
     THEN /\ stopped' = TRUE
          /\ Emit(InfoLines(1), <<>>)
          /\ UNCHANGED exitCode
     ELSE /\ exitCode' = KilledBy(signal)
          /\ UNCHANGED <<stopped, stdout, stderr>>
  /\ UNCHANGED <<dispatchVars, argvTransport, isMCPInspector, isReady, stdinHandler,
                 stream, consumed>>
  /\ UNCHANGED <<startPromise, hooks, faults, health, listing>>
  /\ UNCHANGED <<streamableTransports, mcp, closedTransports>>

\* StopSettles leaving with status 1 when stop() rejected.
StopSettlesFailing(ok) ==
  /\ exitCode = Running
  /\ hooks
  /\ stopped
  /\ Emit(IF ok THEN InfoLines(2) ELSE <<LogError, LogError>>, <<>>)
  /\ exitCode' = IF ok THEN 0 ELSE 1
  /\ UNCHANGED <<dispatchVars, argvTransport, isMCPInspector, isReady, stdinHandler,
                 stream, consumed>>
  /\ UNCHANGED <<startPromise, hooks, faults, health, listing>>
  /\ UNCHANGED mcpVars

\* The callback of this.server.close runs, without an error or with one:
\* stop() logs and resolves or rejects, shutdown() logs and calls
\* process.exit(0).
StopSettles(ok) ==
  /\ exitCode = Running
  /\ hooks
  /\ stopped
  /\ Emit(IF ok THEN InfoLines(2) ELSE <<LogError, LogError>>, <<>>)
  /\ exitCode' = 0
  /\ UNCHANGED <<dispatchVars, argvTransport, isMCPInspector, isReady, stdinHandler,
                 stream, consumed>>
  /\ UNCHANGED <<startPromise, hooks, faults, health, listing>>
  /\ UNCHANGED mcpVars

\* GetHealth always answering 200.
GetHealthAlwaysOk ==
  /\ exitCode = Running
  /\ health' = Health(1 - health.seq, 200, isReady,
                      NameCount(RegistryNames(toolRegistry)),
                      NameCount(RegistryNames(promptRegistry)))
  /\ UNCHANGED <<dispatchVars, stdioVars>>
  /\ UNCHANGED <<startPromise, exitCode, hooks, faults, listing>>

\* app.get('/health'): the status code and the ready field follow
\* this.isReady; tools and prompts are the lengths of getNames().
GetHealth ==
  /\ exitCode = Running
  /\ health' = Health(1 - health.seq, IF isReady THEN 200 ELSE 503, isReady,
                      NameCount(RegistryNames(toolRegistry)),
                      NameCount(RegistryNames(promptRegistry)))
  /\ UNCHANGED <<dispatchVars, stdioVars>>
  /\ UNCHANGED <<startPromise, exitCode, hooks, faults, listing>>

\* app.get('/capabilities'): one entry for each name of getNames(), of both
\* registries.
GetCapabilities ==
  /\ exitCode = Running
  /\ listing' = Listing(1 - listing.seq, "/capabilities",
                        NameList(RegistryNames(toolRegistry)),
                        NameList(RegistryNames(promptRegistry)))
  /\ UNCHANGED <<dispatchVars, stdioVars>>
  /\ UNCHANGED <<startPromise, exitCode, hooks, faults, health>>

\* tool?.name || toolName
ListedName(toolName) ==
  LET tool == ToolLookup(toolName)
  IN IF tool # NoOperation /\ tool.name # <<>> THEN tool.name ELSE toolName

\* The tools/list handler of registerToolsWithSDK: one entry for each name
\* of toolRegistry.getNames().
ListTools ==
  /\ exitCode = Running
  /\ listing' = Listing(1 - listing.seq, "tools/list",
                        NameList({ListedName(toolName) :
                                    toolName \in RegistryNames(toolRegistry)}),
                        NoNames)
  /\ UNCHANGED <<dispatchVars, stdioVars>>
  /\ UNCHANGED <<startPromise, exitCode, hooks, faults, health>>

InitStart ==
  /\ InitStdio
  /\ stream = <<>>

NextStart ==
  \/ Start /\ UNCHANGED <<sseVars, mcpVars, authVars, boundaryVars, mainVars, smitheryVars>>
  \/ ListenSucceeds /\ UNCHANGED <<sseVars, mcpVars, authVars, boundaryVars, mainVars, smitheryVars>>
  \/ BindFails /\ UNCHANGED <<sseVars, mcpVars, authVars, boundaryVars, mainVars, smitheryVars>>
  \/ ServerError /\ UNCHANGED <<sseVars, mcpVars, authVars, boundaryVars, mainVars, smitheryVars>>
  \/ Fault /\ UNCHANGED <<sseVars, mcpVars, authVars, boundaryVars, mainVars, smitheryVars>>
  \/ GetHealth /\ UNCHANGED <<sseVars, mcpVars, authVars, boundaryVars, mainVars, smitheryVars>>
  \/ GetCapabilities /\ UNCHANGED <<sseVars, mcpVars, authVars, boundaryVars, mainVars, smitheryVars>>
  \/ ListTools /\ UNCHANGED <<sseVars, mcpVars, authVars, boundaryVars, mainVars, smitheryVars>>
  \/ \E signal \in Signals :
       Signal(signal) /\ UNCHANGED <<sseVars, authVars, boundaryVars, mainVars, smitheryVars>>
  \/ \E ok \in BOOLEAN :
       StopSettles(ok) /\ UNCHANGED <<sseVars, authVars, boundaryVars, mainVars, smitheryVars>>

\* The process from main's call of server.start() on.
SpecStart == InitStart /\ [][NextStart]_vars

-----------------------------------------------------------------------------
(* main: the port from the command line to the constructor *)

\* yargs runs the middleware of main on the parsed arguments.
RunMiddleware ==
  /\ argvPort = NoPort
  /\ argvPort' = Middleware(cli.port, cli.PORT)
  /\ UNCHANGED <<cli, port>>

\* new ReadwiseMCPServer(apiKey, argv.port, logger, argv.transport)
Constructor ==
  /\ argvPort # NoPort
  /\ port = NoPort
  /\ port' = ConstructorPort(isMCPInspector, argvPort)
  /\ UNCHANGED <<cli, argvPort>>

\* The process before main has read its arguments.
InitMain ==
  /\ toolRegistry = RegisteredTools
  /\ promptRegistry = RegisteredPrompts
  /\ pc = [s \in Slots |-> "idle"]
  /\ via = [s \in Slots |-> "none"]
  /\ request = [s \in Slots |-> NoRequest]
  /\ settled = [s \in Slots |-> NoPromise]
  /\ calls = [s \in Slots |-> <<>>]
  /\ trace = [s \in Slots |-> <<>>]
  /\ order = <<>>
  /\ argvTransport \in {"stdio", "sse"}
  /\ isMCPInspector \in BOOLEAN
  /\ isReady = FALSE
  /\ stdinHandler = FALSE
  /\ stream = <<>>
  /\ consumed = 0
  /\ stdout = <<>>
  /\ stderr = <<>>
  /\ sseTransports = <<>>
  /\ sse = [c \in Conns |-> NoConnection]
  /\ posted = 0
  /\ lastPost = NoPost
  /\ InitHttp
  /\ authToken = Null
  /\ cli \in Clis
  /\ argvPort = NoPort
  /\ port = NoPort

NextMain ==
  \/ RunMiddleware
     /\ UNCHANGED <<dispatchVars, stdioVars, sseVars, mcpVars, authVars, procVars,
                    boundaryVars, smitheryVars>>
  \/ Constructor
     /\ UNCHANGED <<dispatchVars, stdioVars, sseVars, mcpVars, authVars, procVars,
                    boundaryVars, smitheryVars>>

\* main from its arguments to the constructed server.
SpecMain == InitMain /\ [][NextMain]_vars

-----------------------------------------------------------------------------
(* The Smithery entry point: the default export and the calls of its tools *)

\* The next turn of the loop for (const tool of tools): server.tool(...)
\* with the annotations of the tool's name.
RegisterServerTool ==
  /\ Len(serverTools) < Len(SmitheryTools)
  /\ LET name == <<SmitheryTools[Len(serverTools) + 1]>>
     IN serverTools' = Append(serverTools, ServerTool(name, getToolAnnotations(name)))
  /\ UNCHANGED toolCall

\* The SDK calls the handler of a registered tool, and tool.execute settles.
CallTool(i, outcome) ==
  /\ Len(serverTools) = Len(SmitheryTools)
  /\ toolCall' = ToolCall(serverTools[i].name, outcome, ToolHandler(outcome))
  /\ UNCHANGED serverTools

NextSmithery ==
  \/ RegisterServerTool
     /\ UNCHANGED <<dispatchVars, stdioVars, sseVars, mcpVars, authVars, procVars,
                    boundaryVars, mainVars>>
  \/ \E i \in DOMAIN serverTools, outcome \in ToolOutcomes :
       /\ CallTool(i, outcome)
       /\ UNCHANGED <<dispatchVars, stdioVars, sseVars, mcpVars, authVars, procVars,
                      boundaryVars, mainVars>>

\* The server the default export of smithery.ts builds, and the calls of
\* its tools.
SpecSmithery == Init /\ [][NextSmithery]_vars

-----------------------------------------------------------------------------
(* The stdio adapter writing to a standard output that can close *)

\* What the run time does with a write to a standard output whose reader
\* is gone: it drops the text, or it emits 'error' on process.stdout.
WriteReactions == {"dropped", "error"}

\* A listener for 'error' is installed on process.stdout.
StdoutErrorListener == FALSE

\* An envelope is written to standard output in this step.
WritesEnvelope == Len(stdout') > Len(stdout)

\* The step A of the stdio adapter, and what becomes of its writes: an
\* 'error' event without a listener is an uncaught exception.
Writing(A, reaction) ==
  /\ A
  /\ uncaught' = IF WritesEnvelope /\ ~stdoutOpen /\ reaction = "error"
                    /\ ~StdoutErrorListener
                 THEN uncaught + 1 ELSE uncaught
  /\ UNCHANGED <<sseVars, mcpVars, authVars, procVars, mainVars, smitheryVars, stdoutOpen>>

\* The reader of standard output goes away.
StdoutCloses ==
  /\ stdoutOpen
  /\ stdoutOpen' = FALSE
  /\ UNCHANGED <<dispatchVars, stdioVars, sseVars, mcpVars, authVars, procVars, mainVars,
                 smitheryVars,
                 uncaught>>

InitBoundary ==
  /\ InitStdio
  /\ TransportType = "stdio"

NextBoundary ==
  \/ Writing(Listen, "dropped")
  \/ StdoutCloses
  \/ \E n \in 1..Len(stream), reaction \in WriteReactions : Writing(StdinData(n), reaction)
  \/ \E s \in Slots, promise \in StdioPromises :
       Writing(StdioExecuteSettles(s, promise), "dropped")
  \/ \E s \in Slots, reaction \in WriteReactions : Writing(StdioThen(s), reaction)
  \/ \E s \in Slots, reaction \in WriteReactions : Writing(StdioCatch(s), reaction)

\* The stdio server whose client may stop reading its answers.
SpecBoundary == InitBoundary /\ [][NextBoundary]_vars

-----------------------------------------------------------------------------
(* Properties *)

EnvelopeSlots == {s \in Slots : via[s] = "envelope"}

\* The request passed envelope validation.
WellFormed(req) == validateMCPRequest(req).valid

\* The collaborator calls of kind op made for request s.
CallsOf(s, ops) == {i \in DOMAIN trace[s] : trace[s][i].op \in ops}

Executes == {"execute", "executeAsMCP"}

\* The handling of s ended: nothing more runs for it.
Ended(s) == pc[s] \in {"done", "threw", "unhandled", "returned"}

\* Request s got exactly the response r, and no other.
OnlyResponse(s, r) == Len(calls[s]) = 1 /\ calls[s][1].response = r

\* C1: every request handed to handleMCPRequest has its callback invoked
\* exactly once: never more than once, and once when its handling ended.
C1_CallbackExactlyOnce ==
  \A s \in EnvelopeSlots :
    /\ Len(calls[s]) <= 1
    /\ Ended(s) => Len(calls[s]) = 1

\* C2: every response emitted for a request that passed envelope
\* validation carries that request's request_id, whatever else is in
\* flight and in whatever order the executions settle.
C2_ResponseCarriesRequestId ==
  \A s \in EnvelopeSlots :
    WellFormed(request[s]) =>
      \A i \in DOMAIN calls[s] : calls[s][i].response.request_id = request[s].request_id

\* Two requests with different ids were dispatched; the second completed
\* with a success response while the first is still executing.
C2_Witness ==
  /\ Len(order) = 2
  /\ pc[order[1]] = "executing"
  /\ pc[order[2]] = "done"
  /\ Len(calls[order[2]]) = 1
  /\ calls[order[2]][1].response.kind = "success"
  /\ request[order[1]].request_id # request[order[2]].request_id

MissingField(req) ==
  \/ ~HasKey(req.type)
  \/ ~HasKey(req.name)
  \/ ~HasKey(req.request_id)
  \/ ~HasKey(req.parameters)

\* The request got the single response transport/invalid_request with
\* request_id rid, and nothing was looked up or executed for it.
RejectedAsInvalid(s, rid) ==
  /\ Len(calls[s]) = 1
  /\ calls[s][1].response.kind = "error"
  /\ calls[s][1].response.etype = "transport"
  /\ calls[s][1].response.code = <<"invalid_request">>
  /\ calls[s][1].response.request_id = rid
  /\ trace[s] = <<>>

InvalidType(req) == HasKey(req.type) /\ ~IsRequestType(req.type)

\* The response is a transport error whose message names the type value.
NamesType(s) ==
  /\ Len(calls[s]) = 1
  /\ calls[s][1].response.kind = "error"
  /\ calls[s][1].response.etype = "transport"
  /\ calls[s][1].response.message =
       <<"Invalid request type: ">> \o ToStr(request[s].type)
       \o <<". Must be 'tool_call' or 'prompt_call'">>

\* C4 as stated: a request whose type is outside {tool_call, prompt_call}
\* gets a transport error naming the type, whatever its other fields are.
C4_Original ==
  \A s \in EnvelopeSlots : InvalidType(request[s]) => NamesType(s)

\* C4 amended: a request whose type is outside {tool_call, prompt_call}
\* gets the single error transport/invalid_request; its message names the
\* type value when the request also has a name and a request_id field,
\* and names the first missing one of these fields otherwise.
C4_InvalidTypeRejected ==
  \A s \in EnvelopeSlots :
    InvalidType(request[s]) =>
      /\ Len(calls[s]) = 1
      /\ calls[s][1].response.etype = "transport"
      /\ calls[s][1].response.code = <<"invalid_request">>
      /\ trace[s] = <<>>
      /\ HasKey(request[s].name) /\ HasKey(request[s].request_id) => NamesType(s)
      /\ ~HasKey(request[s].name) =>
           calls[s][1].response.message = <<"Missing required field: name">>
      /\ HasKey(request[s].name) /\ ~HasKey(request[s].request_id) =>
           calls[s][1].response.message = <<"Missing required field: request_id">>

\* A request of type resource_call with an empty name was answered with
\* the message naming resource_call.
C4_Witness ==
  \E s \in EnvelopeSlots :
    /\ request[s].type = Str(<<"resource_call">>)
    /\ request[s].name = Str(<<>>)
    /\ HasKey(request[s].request_id)
    /\ NamesType(s)

\* x is not a non-empty string
NotAString(x) == x.t # "string" \/ x.v = <<>>

\* C5: a request whose parameters is not an object (null, an array, a
\* string, a number), or whose name or request_id is not a non-empty
\* string, is rejected with transport/invalid_request and reaches no
\* validate or execute function.
C5_WrongTypesRejected ==
  \A s \in EnvelopeSlots :
    /\ request[s].isObject
    /\ \/ request[s].parameters.t # "object"
       \/ NotAString(request[s].name)
       \/ NotAString(request[s].request_id)
    => /\ Len(calls[s]) = 1
       /\ calls[s][1].response.etype = "transport"
       /\ calls[s][1].response.code = <<"invalid_request">>
       /\ CallsOf(s, Executes \cup {"validate"}) = {}


IsToolCall(req) == req.type = Str(<<"tool_call">>)
IsPromptCall(req) == req.type = Str(<<"prompt_call">>)

\* C6: a well-formed tool_call naming a tool that is not registered gets
\* exactly one response, transport/tool_not_found with the message
\* "Tool not found: <name>" and its request_id, and nothing is validated
\* or executed; a prompt_call naming an unregistered prompt gets
\* transport/prompt_not_found in the same way.
C6_NotFound ==
  \A s \in EnvelopeSlots :
    LET req == request[s]
    IN WellFormed(req) =>
         /\ IsToolCall(req) /\ req.name.v \notin RegistryNames(toolRegistry) =>
              /\ OnlyResponse(s, ErrorResponse("transport", <<"tool_not_found">>,
                                               <<"Tool not found: ">> \o req.name.v,
                                               FALSE, <<>>, req.request_id))
              /\ CallsOf(s, Executes \cup {"validate"}) = {}
         /\ IsPromptCall(req) /\ req.name.v \notin RegistryNames(promptRegistry) =>
              /\ OnlyResponse(s, ErrorResponse("transport", <<"prompt_not_found">>,
                                               <<"Prompt not found: ">> \o req.name.v,
                                               FALSE, <<>>, req.request_id))
              /\ CallsOf(s, Executes \cup {"validate"}) = {}

\* A prompt_call for the unregistered name get_nothing was answered.
C6_Witness ==
  \E s \in EnvelopeSlots :
    /\ IsPromptCall(request[s])
    /\ request[s].name = Str(<<"get_nothing">>)
    /\ pc[s] = "done"
    /\ Len(calls[s]) = 1
    /\ calls[s][1].response.code = <<"prompt_not_found">>

\* C7: a tool_call is resolved against the tool registry only and a
\* prompt_call against the prompt registry only: every operation executed
\* for a request is registered in the registry of the request's kind, a
\* tool_call naming a prompt that is no tool fails with tool_not_found,
\* and a prompt_call naming a tool that is no prompt with prompt_not_found.
C7_SeparateNamespaces ==
  \A s \in EnvelopeSlots :
    LET req == request[s]
        tools == RegistryNames(toolRegistry)
        prompts == RegistryNames(promptRegistry)
    IN /\ \A i \in CallsOf(s, Executes \cup {"validate", "get"}) :
            /\ IsToolCall(req) => trace[s][i].registry = "tools"
            /\ IsPromptCall(req) => trace[s][i].registry = "prompts"
       /\ \A i \in CallsOf(s, Executes \cup {"validate"}) :
            /\ IsToolCall(req) => trace[s][i].name \in tools
            /\ IsPromptCall(req) => trace[s][i].name \in prompts
       /\ WellFormed(req) /\ IsToolCall(req) /\ req.name.v \in prompts \ tools =>
            /\ Len(calls[s]) = 1
            /\ calls[s][1].response.code = <<"tool_not_found">>
       /\ WellFormed(req) /\ IsPromptCall(req) /\ req.name.v \in tools \ prompts =>
            /\ Len(calls[s]) = 1
            /\ calls[s][1].response.code = <<"prompt_not_found">>

\* A tool_call naming the prompt readwise_search was answered tool_not_found.
C7_Witness ==
  \E s \in EnvelopeSlots :
    /\ IsToolCall(request[s])
    /\ request[s].name = Str(READWISE_SEARCH)
    /\ Len(calls[s]) = 1
    /\ calls[s][1].response.code = <<"tool_not_found">>
    /\ CallsOf(s, Executes) = {}

\* C8: when the validator of the resolved operation reports invalid, the
\* one response is validation/invalid_parameters, its errors array has one
\* string per reported error, in the same order, each "<field>: <message>",
\* and the operation is not executed.
C8_InvalidParameters ==
  \A s \in EnvelopeSlots :
    \A i \in CallsOf(s, {"validate"}) :
      LET verdict == trace[s][i].returned
      IN ~verdict.threw /\ ~verdict.valid =>
           /\ Len(calls[s]) = 1
           /\ calls[s][1].response.kind = "error"
           /\ calls[s][1].response.etype = "validation"
           /\ calls[s][1].response.code = <<"invalid_parameters">>
           /\ calls[s][1].response.request_id = request[s].request_id
           /\ calls[s][1].response.hasErrors
           /\ Len(calls[s][1].response.errors) = Len(verdict.errors)
           /\ \A j \in DOMAIN verdict.errors :
                calls[s][1].response.errors[j] =
                  verdict.errors[j].field \o <<": ">> \o verdict.errors[j].message
           /\ CallsOf(s, Executes) = {}

\* A validator reported two errors and the request was answered with both.
C8_Witness ==
  \E s \in EnvelopeSlots :
    /\ \E i \in CallsOf(s, {"validate"}) : Len(trace[s][i].returned.errors) = 2
    /\ Len(calls[s]) = 1
    /\ Len(calls[s][1].response.errors) = 2
    /\ calls[s][1].response.errors[1] # calls[s][1].response.errors[2]

\* The validator of the operation of this name rejects these parameters.
ValidatorRejects(registry, name, parameters) ==
  /\ RegistryGet(registry, name).hasValidate
  /\ parameters.t = "object"
  /\ ValidatorErrors(parameters) # <<>>

\* C9: on every dispatch path, no operation that declares a validator is
\* executed with parameters its validator rejects.
C9_ValidatedBeforeExecution ==
  \A s \in Slots :
    \A i \in CallsOf(s, Executes) :
      ~ValidatorRejects(IF trace[s][i].registry = "tools" THEN toolRegistry
                        ELSE promptRegistry,
                        trace[s][i].name, trace[s][i].parameters)

\* The operation the request resolves to, in the registry of its kind.
Resolved(req) ==
  IF IsToolCall(req) THEN RegistryGet(toolRegistry, req.name.v)
  ELSE RegistryGet(promptRegistry, req.name.v)

\* C10: a well-formed request whose operation has no validate function
\* is executed with its parameters, whatever they are, no validator is
\* called, and it never gets invalid_parameters.
C10_NoValidatorAccepts ==
  \A s \in EnvelopeSlots :
    LET req == request[s]
    IN WellFormed(req) /\ Resolved(req) # NoOperation /\ ~Resolved(req).hasValidate =>
         /\ CallsOf(s, {"validate"}) = {}
         /\ \E i \in CallsOf(s, Executes) :
              /\ trace[s][i].name = req.name.v
              /\ trace[s][i].parameters = req.parameters
         /\ \A i \in DOMAIN calls[s] :
              calls[s][i].response.code # <<"invalid_parameters">>

\* get_tags, which has no validator, is executing with parameters null.
C10_Witness ==
  \E s \in EnvelopeSlots :
    /\ request[s].name = Str(GET_TAGS)
    /\ IsToolCall(request[s])
    /\ request[s].parameters = Null
    /\ pc[s] = "executing"

\* The step in which the .then handler of request s runs on its result.
ThenRuns(s) == via[s] = "envelope" /\ pc[s] = "fulfilled" /\ pc'[s] # "fulfilled"

\* C11: for every successful execution the response's content is the
\* result's own content whenever the result has a content field, whatever
\* its value, and otherwise a single text item holding the JSON
\* serialization of the result; the response's request_id is the
\* request's, also when the result carries a request_id of its own.
C11_SuccessContent ==
  [][\A s \in Slots :
       ThenRuns(s) =>
         LET result == settled[s].result
         IN /\ Len(calls'[s]) = Len(calls[s]) + 1
            /\ calls'[s][Len(calls'[s])].response.kind = "success"
            /\ calls'[s][Len(calls'[s])].response.content =
                 IF HasKey(result.content) THEN result.content
                 ELSE TextContent(JSONStringify(result))
            /\ calls'[s][Len(calls'[s])].response.request_id = request[s].request_id]_vars

\* The .catch handler of request s has answered the rejection settled[s].
CatchAnswered(s) ==
  /\ via[s] = "envelope"
  /\ settled[s].state = "rejected"
  /\ pc[s] \in {"done", "unhandled"}
  /\ calls[s] # <<>>

\* The response the .catch handler of request s gave.
CatchResponse(s) == calls[s][Len(calls[s])].response

\* The thrown value is an object whose type field is 'authentication'.
FlaggedAuthentication(error) == error.isObject /\ error.type = Str(<<"authentication">>)

\* C12: on a rejected execution of any request, tool_call or prompt_call,
\* the error response has type validation when the thrown error is flagged
\* as an authentication error and type execution for every other error.
C12_ErrorKind ==
  \A s \in Slots :
    CatchAnswered(s) =>
      /\ CatchResponse(s).kind = "error"
      /\ CatchResponse(s).etype =
           IF FlaggedAuthentication(settled[s].error) THEN "validation" ELSE "execution"

\* The thrown value carries structured details that have this field.
CarriesDetail(error, field) ==
  error.isObject /\ error.details.t = "object" /\ HasKey(field)

\* C13: on a rejected tool execution the error response's code and message
\* are those of the thrown error's structured details, as strings, when
\* the details carry them; a code the details do not carry is 'tool_error',
\* and a message they do not carry is the thrown Error's message, or
\* 'Unknown error' when the thrown value is not an Error.
C13_ToolErrorDetails ==
  \A s \in Slots :
    CatchAnswered(s) /\ IsToolCall(request[s]) =>
      LET error == settled[s].error
          details == error.details
      IN /\ CatchResponse(s).kind = "error"
         /\ CatchResponse(s).code =
              IF CarriesDetail(error, details.code) THEN ToStr(details.code)
              ELSE <<"tool_error">>
         /\ CatchResponse(s).message =
              IF CarriesDetail(error, details.message) THEN ToStr(details.message)
              ELSE IF error.isError THEN error.message
              ELSE <<"Unknown error">>
         /\ CatchResponse(s).request_id = request[s].request_id

\* A tool execution rejected with an Error whose details carry the code
\* 429 and no message; the response has the code "429" and the Error's
\* message.
C13_Witness ==
  \E s \in Slots :
    /\ CatchAnswered(s)
    /\ IsToolCall(request[s])
    /\ settled[s].error.details = Details("object", Num("429"), Absent)
    /\ CatchResponse(s).code = <<"429">>
    /\ CatchResponse(s).message = <<"Rate limited">>

\* The responses request s got, in the order it got them.
Responses(s) == [i \in DOMAIN calls[s] |-> calls[s][i].response]

\* A response callback of request s threw.
CallbackThrew(s) == \E i \in DOMAIN calls[s] : calls[s][i].threw

\* The request reaches execution: it is well-formed, names a registered
\* operation of its kind, and that operation's validator does not reject
\* its parameters.
ReachesExecution(req) ==
  /\ WellFormed(req)
  /\ Resolved(req) # NoOperation
  /\ req.parameters.t = "object"
  /\ ~ValidatorRejects(IF IsToolCall(req) THEN toolRegistry ELSE promptRegistry,
                       req.name.v, req.parameters)

\* C14: the dispatcher keeps no memory of prior requests.  Every
\* dispatched request that reaches execution has its operation's execute
\* function called exactly once, with its own parameters, whatever was
\* dispatched before it and also when the very same request (same
\* request_id) was dispatched before; and the responses a request gets
\* are determined by the request and its own execution outcome alone: two
\* dispatches of the same request that stand at the same point with the
\* same outcome, their response callbacks returning normally, have the same
\* responses.
C14_NoMemory ==
  \A s \in EnvelopeSlots :
    /\ ReachesExecution(request[s]) =>
         /\ Cardinality(CallsOf(s, Executes)) = 1
         /\ \A i \in CallsOf(s, Executes) :
              /\ trace[s][i].name = request[s].name.v
              /\ trace[s][i].parameters = request[s].parameters
    /\ \A o \in EnvelopeSlots :
         /\ request[o] = request[s] /\ pc[o] = pc[s] /\ settled[o] = settled[s]
         /\ ~CallbackThrew(o) /\ ~CallbackThrew(s)
         => Responses(o) = Responses(s)

\* The same request was dispatched twice; both dispatches executed once
\* and completed, one with a success response and one with an error.
C14_Witness ==
  \E s \in EnvelopeSlots, o \in EnvelopeSlots :
    /\ s # o
    /\ request[s] = request[o]
    /\ ReachesExecution(request[s])
    /\ pc[s] = "done" /\ pc[o] = "done"
    /\ Cardinality(CallsOf(s, Executes)) = 1
    /\ Cardinality(CallsOf(o, Executes)) = 1
    /\ Len(calls[s]) = 1 /\ Len(calls[o]) = 1
    /\ calls[s][1].response.kind = "success"
    /\ calls[o][1].response.kind = "error"

-----------------------------------------------------------------------------
(* Properties of the stdio adapter *)

\* The complete lines of a text: what stands before each newline.
RECURSIVE LinesOf(_, _)
LinesOf(text, line) ==
  IF text = <<>> THEN <<>>
  ELSE IF Head(text) = NL THEN <<line>> \o LinesOf(Tail(text), <<>>)
  ELSE LinesOf(Tail(text), Append(line, Head(text)))

\* The values of the lines that are JSON texts, in the order of the lines.
RECURSIVE JsonValues(_)
JsonValues(lines) ==
  IF lines = <<>> THEN <<>>
  ELSE IF IsJsonText(Head(lines))
    THEN <<(CHOOSE j \in JsonTexts : Head(lines) = <<j.open, j.close>>).value>>
         \o JsonValues(Tail(lines))
  ELSE JsonValues(Tail(lines))

\* The requests handed to the dispatcher, in the order they were handed.
Dispatched == [i \in DOMAIN order |-> request[order[i]]]

\* The writes to standard output that answer a dispatched request: all
\* but the envelopes for a JSON syntax error.
ResponseWrites ==
  {i \in DOMAIN stdout :
     stdout[i].json.message \notin {UNEXPECTED_END, UNEXPECTED_TOKEN}}

\* All input was read and nothing is in flight.
StdioQuiet == consumed = Len(stream) /\ \A s \in Slots : pc[s] = "idle" \/ Ended(s)

\* C15: however the input stream is split into data chunks, each complete
\* JSON line of it is handed to the dispatcher once, in order, and yields
\* exactly one response line on standard output.
C15_LinesParsedIndependently ==
  stdinHandler /\ StdioQuiet =>
    /\ Dispatched = JsonValues(LinesOf(stream, <<>>))
    /\ Cardinality(ResponseWrites) = Len(JsonValues(LinesOf(stream, <<>>)))

\* The chunk the 'data' listener got in this step, trimmed.
ChunkInput == Trim(SubSeq(stream, consumed + 1, consumed'))

\* The 'data' listener ran in this step.
DataEvent == stdinHandler /\ consumed' > consumed

\* C16: a chunk of stdin that is not valid JSON is answered with exactly
\* one envelope on stdout, of type transport, code invalid_request and
\* request_id "unknown", and nothing is dispatched for it; the listener
\* stays installed, and a chunk that is a JSON text is handed to the
\* dispatcher whatever chunks came before it.
C16_InvalidJsonAnswered ==
  [][DataEvent =>
       /\ stdinHandler'
       /\ ChunkInput # <<>> /\ ~IsJsonText(ChunkInput) =>
            /\ Len(stdout') = Len(stdout) + 1
            /\ stdout'[Len(stdout')].kind = "envelope"
            /\ stdout'[Len(stdout')].json.kind = "error"
            /\ stdout'[Len(stdout')].json.etype = "transport"
            /\ stdout'[Len(stdout')].json.code = <<"invalid_request">>
            /\ stdout'[Len(stdout')].json.request_id = Str(<<"unknown">>)
            /\ UNCHANGED dispatchVars
       /\ IsJsonText(ChunkInput) =>
            /\ Len(order') = Len(order) + 1
            /\ request'[order'[Len(order')]] = JSONParse(ChunkInput)]_vars

\* Text that is no JSON was answered with the error envelope, and the
\* request sent after it with a success response carrying its request_id.
C16_Witness ==
  /\ stream = GarbageLine \o JsonLine(JsonText("{q1", "q1}", Q1))
  /\ Len(stdout) = 2
  /\ stdout[1].json.code = <<"invalid_request">>
  /\ stdout[1].json.request_id = Str(<<"unknown">>)
  /\ stdout[2].json.kind = "success"
  /\ stdout[2].json.request_id = R1

\* C17: in stdio mode every write to standard output is a response
\* envelope, one JSON object followed by one newline, the logger's lines
\* go to standard error, and a chunk of input that is empty or only white
\* space produces no output.
C17_StdoutOnlyEnvelopes ==
  [][/\ TransportType = "stdio" =>
          /\ \A i \in DOMAIN stdout' :
               /\ stdout'[i].kind = "envelope"
               /\ stdout'[i].json.kind \in {"success", "error"}
               /\ stdout'[i].tail = <<NL>>
          /\ \A i \in DOMAIN stderr' : stderr'[i].kind = "log"
     /\ DataEvent /\ ChunkInput = <<>> => stdout' = stdout /\ stderr' = stderr]_vars

\* In stdio mode a blank line and a request were read; standard output
\* holds the one response envelope and standard error the logger's lines.
C17_Witness ==
  /\ TransportType = "stdio"
  /\ stream = BlankLine \o JsonLine(JsonText("{q2", "q2}", Q2))
  /\ consumed = Len(stream)
  /\ Len(stdout) = 1
  /\ stdout[1].kind = "envelope"
  /\ stdout[1].json.code = <<"invalid_parameters">>
  /\ Len(stderr) > 9

-----------------------------------------------------------------------------
(* Properties of the SSE adapter *)

\* A POST /messages was handled in this step.
PostHandled == posted' # posted

\* C18: POST /messages without a sessionId query parameter (none, or an
\* empty one) is answered 400 with error type validation and code
\* missing_session_id; with a sessionId that is not in the SSE session
\* store it is answered 404 with type transport and code
\* session_not_found; in both cases no transport receives the message and
\* the store is unchanged.
C18_PostWithoutSession ==
  [][PostHandled =>
       LET sessionId == lastPost'.sessionId
           missing == sessionId = Absent \/ sessionId = Str(<<>>)
           unknown == sessionId.t = "string" /\ sessionId.v # <<>>
                      /\ sessionId.v \notin DOMAIN sseTransports
       IN /\ missing =>
               /\ lastPost'.response.status = 400
               /\ lastPost'.response.etype = "validation"
               /\ lastPost'.response.code = <<"missing_session_id">>
          /\ unknown =>
               /\ lastPost'.response.status = 404
               /\ lastPost'.response.etype = "transport"
               /\ lastPost'.response.code = <<"session_not_found">>
          /\ missing \/ unknown =>
               /\ lastPost'.transport = NoTransport
               /\ sseTransports' = sseTransports]_vars

\* While a session is stored, a POST naming an identifier that is not in
\* the store was answered 404 session_not_found and reached no transport.
C18_Witness ==
  /\ DOMAIN sseTransports # {}
  /\ lastPost.sessionId.t = "string"
  /\ lastPost.sessionId.v \notin {sse[c].sessionId : c \in Conns}
  /\ lastPost.sessionId.v # <<>>
  /\ lastPost.response.status = 404
  /\ lastPost.response.code = <<"session_not_found">>
  /\ lastPost.transport = NoTransport

\* The session of connection c is established and live: its listeners are
\* installed, its client is connected, its transport is open and has
\* reported no error.
Live(c) ==
  /\ HandlersInstalled(c)
  /\ sse[c].open
  /\ ~sse[c].closed
  /\ ~sse[c].errored

\* C19: a POST /messages carrying the session identifier of a live SSE
\* session is handed to the transport created for that session's GET /sse
\* connection and to no other transport, however many sessions are live.
C19_RoutedToOwnTransport ==
  [][PostHandled =>
       \A c \in Conns :
         Live(c) /\ lastPost'.sessionId = Str(sse[c].sessionId) =>
           lastPost'.transport = c]_vars

\* The client of connection c disconnects in this step.
Disconnects(c) == sse[c].open /\ ~sse'[c].open

\* The transport of connection c reports an error in this step.
ReportsError(c) == ~sse[c].errored /\ sse'[c].errored

\* C20: for an established SSE session, a client disconnect and a
\* transport error each remove the session from the store and close its
\* transport, and a POST /messages with its identifier then gets 404.
C20_DisconnectOrErrorCleans ==
  [][\A c \in Conns :
       HandlersInstalled(c) /\ (Disconnects(c) \/ ReportsError(c)) =>
         /\ sse[c].sessionId \notin DOMAIN sseTransports'
         /\ sse'[c].closed
         /\ postMessages(sseTransports', Str(sse[c].sessionId), FALSE).response.status
              = 404]_vars

-----------------------------------------------------------------------------
(* Properties of the session stores, /mcp and stop() *)

\* The connection under the SSE session of connection c is gone.
SseGone(c) == ~sse[c].open \/ sse[c].closed \/ sse[c].errored

\* C21: no session store keeps an entry for a session whose connection is
\* gone: an entry of the SSE store or of the /mcp store names a transport
\* whose connection has neither closed nor errored, and both stores are
\* empty once the server is stopped.
C21_NoEntryForGoneSession ==
  /\ \A id \in DOMAIN sseTransports : ~SseGone(sseTransports[id])
  /\ \A id \in DOMAIN streamableTransports :
       streamableTransports[id] \notin closedTransports
  /\ stopped => DOMAIN sseTransports = {} /\ DOMAIN streamableTransports = {}

\* The /mcp request r arrives in this step.
McpArrives(r) == mcp[r].phase = "none" /\ mcp'[r].phase # "none"

\* The mcp-session-id header names a session of the /mcp store.
MatchesStored(header) ==
  header.t = "string" /\ header.v \in DOMAIN streamableTransports

\* C22: a /mcp request whose mcp-session-id header matches a stored
\* session is handled by the stored transport: no transport is created or
\* connected to the MCP server for it, no header is set, and neither its
\* arrival nor its handling changes the store.
C22_StoredTransportReused ==
  [][\A r \in McpRequests :
       /\ McpArrives(r) /\ MatchesStored(mcp'[r].header) =>
            /\ mcp'[r].phase = "handling"
            /\ mcp'[r].transport = streamableTransports[mcp'[r].header.v]
            /\ ~mcp'[r].created
            /\ streamableTransports' = streamableTransports
       /\ ~mcp[r].created /\ mcp[r].phase = "handling" /\ mcp'[r] # mcp[r] =>
            /\ mcp'[r].phase = "done"
            /\ mcp'[r].transport = mcp[r].transport
            /\ ~mcp'[r].created
            /\ mcp'[r].sessionHeader = Absent
            /\ streamableTransports' = streamableTransports]_vars

\* A request carrying the identifier of a stored session was answered by
\* the transport an earlier request created.
C22_Witness ==
  \E r \in McpRequests :
    /\ mcp[r].phase = "done"
    /\ ~mcp[r].created
    /\ mcp[r].transport \in McpRequests \ {r}
    /\ mcp[r].response = Handled
    /\ MatchesStored(mcp[r].header)
    /\ streamableTransports[mcp[r].header.v] = mcp[r].transport

\* The transport that /mcp request r created is connected in this step.
McpConnects(r) == mcp[r].phase = "connecting" /\ mcp'[r].phase = "handling"

\* C23: a /mcp request with no mcp-session-id header, or one that matches
\* no stored session, creates a transport and connects it to the MCP
\* server; once connected, the transport's session identifier is in the
\* store, bound to this transport, and in the mcp-session-id response
\* header, and a later request carrying the returned identifier is handled
\* by this transport.
C23_NewSessionStoredAndReturned ==
  [][\A r \in McpRequests :
       /\ McpArrives(r) /\ ~MatchesStored(mcp'[r].header) =>
            /\ mcp'[r].created
            /\ mcp'[r].transport = r
            /\ mcp'[r].phase = "connecting"
       /\ McpConnects(r) =>
            /\ Truthy(mcp'[r].sessionHeader)
            /\ MapGet(streamableTransports', mcp'[r].sessionHeader) = r
       /\ \A q \in McpRequests :
            /\ McpArrives(q)
            /\ Truthy(mcp[r].sessionHeader)
            /\ mcp'[q].header = mcp[r].sessionHeader
            => mcp'[q].transport = r]_vars

\* A session is created in this step: a GET /sse handler stores its
\* transport, or a /mcp handler has connected a new transport.
CreatesSession ==
  \/ \E c \in Conns : sse[c].phase = "none" /\ sse'[c].phase # "none"
  \/ \E r \in McpRequests : McpConnects(r)

\* C24: creating a session on /sse or /mcp leaves every existing entry of
\* both session stores in place and bound to the same transport, and a
\* POST /messages for a live session is handled by that session's own
\* transport whatever other sessions exist.
C24_SessionsIndependent ==
  [][/\ CreatesSession =>
          /\ \A id \in DOMAIN sseTransports :
               id \in DOMAIN sseTransports' /\ sseTransports'[id] = sseTransports[id]
          /\ \A id \in DOMAIN streamableTransports :
               /\ id \in DOMAIN streamableTransports'
               /\ streamableTransports'[id] = streamableTransports[id]
     /\ PostHandled =>
          \A c \in Conns :
            Live(c) /\ lastPost'.sessionId = Str(sse[c].sessionId) =>
              lastPost'.transport = c]_vars

-----------------------------------------------------------------------------
(* Properties of the token gate *)

\* The non-empty tokens a request presents: the Bearer token of its
\* Authorization header and its token query parameter.
Presented(g) ==
  ((IF g.authorization.t = "string" /\ g.authorization.v # <<>>
       /\ Head(g.authorization.v) = BEARER
    THEN {Tail(g.authorization.v)} ELSE {})
   \cup (IF g.queryToken.t = "string" THEN {g.queryToken.v} ELSE {})) \ {<<>>}

\* A request to a gated endpoint is answered or handled in this step.
GatedStep == <<gate, sseVars, mcpVars>>' # <<gate, sseVars, mcpVars>>

\* C25: with a configured token, a non-OPTIONS request to /sse, /messages
\* or /mcp reaches the route handler only if a token it presents equals the
\* configured one; a request presenting no token is answered 401, one
\* presenting only other tokens 403, and a request that does not pass
\* changes no session store, creates no transport and reaches none.
C25_TokenGate ==
  [][GatedStep /\ Truthy(authToken) /\ gate'.endpoint \in AuthPaths
       /\ gate'.method # "OPTIONS" =>
       /\ gate'.passed => authToken.v \in Presented(gate')
       /\ Presented(gate') = {} => gate'.response.status = 401
       /\ Presented(gate') # {} /\ authToken.v \notin Presented(gate') =>
            gate'.response.status = 403
       /\ gate'.response.status \in {401, 403} => ~gate'.passed
       /\ ~gate'.passed => UNCHANGED <<sseVars, mcpVars>>]_vars

\* While a session is stored, a POST /messages presenting a token of the
\* configured token's length but other content was answered 403, and no
\* POST has reached the handler.
C25_Witness ==
  /\ Truthy(authToken)
  /\ DOMAIN sseTransports # {}
  /\ gate.endpoint = "/messages"
  /\ gate.method = "POST"
  /\ Presented(gate) = {<<"k", "2">>}
  /\ gate.response = InvalidToken
  /\ ~gate.passed
  /\ lastPost = NoPost

-----------------------------------------------------------------------------
(* Properties of the process *)

\* GET /health is answered in this step.
HealthAnswered == health'.seq # health.seq

\* The listen callback has run: the listening bind has completed.
Listening == startPromise = "resolved"

-----------------------------------------------------------------------------
(* Properties of the adapter boundary *)

\* The stdio adapter catches an exception in this step: the chunk is no
\* JSON text, the dispatcher threw, or the .catch handler of a request runs.
CatchesException ==
  \/ DataEvent /\ ChunkInput # <<>> /\ ~IsJsonText(ChunkInput)
  \/ \E s \in Slots : pc[s] # "threw" /\ pc'[s] = "threw"
  \/ \E s \in Slots : pc[s] = "rejected" /\ pc'[s] # "rejected"

\* C27: no error passes the boundary of the stdio adapter: no step raises
\* an uncaught exception or leaves a rejection unhandled, and every
\* exception the adapter catches while decoding, dispatching, executing or
\* serializing is logged and, while standard output has a reader, answered
\* with an error envelope.
C27_ErrorsStayInsideAdapter ==
  [][/\ uncaught' = uncaught
     /\ \A s \in Slots : pc[s] # "unhandled" => pc'[s] # "unhandled"
     /\ CatchesException =>
          /\ stderr' # stderr
          /\ stdoutOpen =>
               /\ WritesEnvelope
               /\ stdout'[Len(stdout')].json.kind = "error"]_vars

\* The Bearer token of the Authorization header of the request, if it has
\* one that is not empty, and the token parameter, if it is a string that
\* is not empty.
HeaderTokens(g) ==
  IF g.authorization.t = "string" /\ g.authorization.v # <<>>
     /\ Head(g.authorization.v) = BEARER
  THEN {Tail(g.authorization.v)} \ {<<>>} ELSE {}
ParameterTokens(g) ==
  IF g.queryToken.t = "string" THEN {g.queryToken.v} \ {<<>>} ELSE {}

\* C35: a request to a gated endpoint that presents a Bearer header token
\* is judged by that token alone, whatever its token parameter: it passes
\* the gate if the header token is the configured one and is answered 403
\* otherwise, also beside the right token parameter; the token parameter
\* decides only for a request without a Bearer header token.
C35_HeaderTokenWins ==
  [][GatedStep /\ Truthy(authToken) /\ gate'.endpoint \in AuthPaths
       /\ gate'.method # "OPTIONS" =>
       /\ HeaderTokens(gate') # {} =>
            IF authToken.v \in HeaderTokens(gate')
            THEN gate'.response.status \notin {401, 403}
            ELSE gate'.response = InvalidToken /\ ~gate'.passed
       /\ HeaderTokens(gate') = {} /\ ParameterTokens(gate') # {} =>
            IF authToken.v \in ParameterTokens(gate')
            THEN gate'.response.status \notin {401, 403}
            ELSE gate'.response = InvalidToken /\ ~gate'.passed]_vars

\* A request to /mcp presenting a wrong Bearer token beside the right token
\* parameter was answered 403.
C35_Witness ==
  /\ Truthy(authToken)
  /\ gate.endpoint = "/mcp"
  /\ gate.method = "POST"
  /\ HeaderTokens(gate) = {<<"k", "2">>}
  /\ ParameterTokens(gate) = {authToken.v}
  /\ gate.response = InvalidToken
  /\ ~gate.passed

-----------------------------------------------------------------------------
(* Properties of the open routes *)

\* A request is answered or handled in this step.
RequestStep == gate' # gate

\* C34: GET /health, GET /capabilities, GET / and GET
\* /.well-known/oauth-authorization-server are never answered by the token
\* gate, with or without a configured token and whatever the request
\* presents: the first three are answered by their handlers, the last one
\* always with 404; and without a configured token the gate answers no
\* request to any endpoint with 401 or 403.
C34_OpenRoutesUngated ==
  [][RequestStep =>
       /\ gate'.endpoint \in OpenEndpoints =>
            /\ gate'.passed
            /\ gate'.response = OpenRoute(gate'.endpoint)
            /\ gate'.response.status \notin {401, 403}
       /\ gate'.endpoint = OAUTH_METADATA => gate'.response.status = 404
       /\ ~Truthy(authToken) =>
            /\ gate'.response.status \notin {401, 403}
            /\ Routed(gate'.endpoint, gate'.method) => gate'.passed]_vars

\* With a configured token, GET /health presenting a wrong Bearer token was
\* answered by the health handler.
C34_Witness ==
  /\ Truthy(authToken)
  /\ gate.endpoint = "/health"
  /\ Presented(gate) = {<<"k", "2">>}
  /\ gate.passed
  /\ gate.response.status \in {200, 503}

-----------------------------------------------------------------------------
(* Properties of the stdin handler *)

\* C36: process.stdin has the 'data' listener only if the transport type is
\* stdio and the bind has succeeded: not before the bind, not after a failed
\* bind, not in sse mode; and /sse, /messages and /mcp are among the routes
\* the constructor registers for either transport type.
C36_StdinHandlerAfterBind ==
  /\ stdinHandler => TransportType = "stdio" /\ startPromise = "resolved"
  /\ startPromise = "resolved" /\ TransportType = "stdio" => stdinHandler
  /\ \A transportType \in {"stdio", "sse"} :
       {"/sse", "/messages", "/mcp"} \subseteq Routes(transportType)

\* The bind has succeeded in stdio mode and the handler is installed.
C36_Witness ==
  /\ TransportType = "stdio"
  /\ startPromise = "resolved"
  /\ stdinHandler
  /\ isReady

-----------------------------------------------------------------------------
(* Properties of the shutdown *)

\* The process exits in this step.
Exits == exitCode = Running /\ exitCode' # Running

\* The lines the logger has printed
LoggerLines == IF LoggerTransport = "stdout" THEN stdout ELSE stderr

\* C39: a SIGINT or SIGTERM that reaches the process after start() has
\* succeeded calls stop(); the process then exits only with status 0,
\* whether stop() resolved or rejected; this.isReady, once true, stays
\* true, and a health request answered after stop() was called reports
\* ready: true.
C39_ShutdownExitsZero ==
  [][/\ hooks /\ ~stopped /\ stopped' => startPromise = "resolved" /\ ~Exits
     /\ Exits /\ hooks => stopped /\ exitCode' = 0
     /\ Exits /\ exitCode' = 0 => stopped /\ startPromise = "resolved"
     /\ isReady => isReady'
     /\ HealthAnswered /\ stopped => health'.ready /\ health'.status = 200]_vars

\* stop() was called and rejected; the process has exited with status 0 and
\* the flag is still set.
C39_Witness ==
  /\ stopped
  /\ exitCode = 0
  /\ isReady
  /\ LoggerLines # <<>>
  /\ LoggerLines[Len(LoggerLines)] = LogError

-----------------------------------------------------------------------------
(* Properties of the Smithery entry point *)

\* A handler of a tool has been called.
ToolCalled == toolCall # NoToolCall

\* The result of the call, out of its wrapper if it came in one.
ResultOfCall ==
  IF toolCall.outcome.value.result # <<>>
  THEN toolCall.outcome.value.result[1] ELSE toolCall.outcome.value

\* The conversion of the result of the call threw.
ConversionThrew == ResultOfCall.content = <<>> /\ ResultOfCall.cyclic

\* C37: the handler of a registered tool never rejects.  When execute
\* resolved it returns a content array made from the result: the items of
\* the result's own content, each text item with a string as its text, or
\* else one text item with the JSON text of the result; when execute
\* rejected (or the conversion of the result threw) it returns exactly one
\* text item, holding the message of the error or the string form of the
\* value thrown.
C37_HandlerNeverRejects ==
  ToolCalled =>
    LET returned == toolCall.returned
        outcome == toolCall.outcome
    IN /\ ~returned.threw
       /\ \A i \in DOMAIN returned.content :
            returned.content[i].type = "text" => returned.content[i].text.t = "string"
       /\ outcome.state = "fulfilled" /\ ResultOfCall.content # <<>> =>
            /\ Len(returned.content) = Len(ResultOfCall.content[1])
            /\ \A i \in DOMAIN returned.content :
                 /\ returned.content[i].type = ResultOfCall.content[1][i].type
                 /\ Truthy(ResultOfCall.content[1][i].text) =>
                      returned.content[i].text = ResultOfCall.content[1][i].text
       /\ outcome.state = "fulfilled" /\ ResultOfCall.content = <<>>
          /\ ~ConversionThrew =>
            /\ Len(returned.content) = 1
            /\ returned.content[1].type = "text"
            /\ ResultOfCall.t # "absent" =>
                 \E k \in DOMAIN returned.content[1].text.v :
                   returned.content[1].text.v[k] = ResultOfCall.key
       /\ outcome.state = "rejected" =>
            returned.content =
              <<Item("text", Str(IF outcome.error.t = "error" THEN outcome.error.v
                                 ELSE ToStr(outcome.error)))>>
       /\ outcome.state = "fulfilled" /\ ConversionThrew =>
            /\ Len(returned.content) = 1
            /\ returned.content[1].type = "text"

\* execute rejected with a string, and the handler returned one text item
\* holding it.
C37_Witness ==
  /\ toolCall.tool = <<"get_books">>
  /\ toolCall.outcome = Rejects(Str(<<"quota">>))
  /\ ~toolCall.returned.threw
  /\ toolCall.returned.content = <<Item("text", Str(<<"quota">>))>>

\* The tools that change the library: they create, save, update, tag or
\* delete.
WritingTools ==
  {<<"document_tags">>, <<"bulk_tags">>, <<"update_reading_progress">>,
   <<"create_highlight">>, <<"update_highlight">>, <<"delete_highlight">>,
   <<"create_note">>, <<"create_video_highlight">>, <<"update_video_position">>,
   <<"save_document">>, <<"update_document">>, <<"delete_document">>,
   <<"bulk_save_documents">>, <<"bulk_update_documents">>,
   <<"bulk_delete_documents">>}

\* The registered tools with the annotations
Annotated(annotations) ==
  {i \in DOMAIN serverTools : serverTools[i].annotations = annotations}

\* C38: every tool is registered once, with the annotations of its name:
\* the delete tools destructive and idempotent, the create and save tools
\* neither, the update and tag tools idempotent only, every other tool
\* read-only and not destructive; of the 30 tools 3, 5, 7 and 15 are of
\* each kind, and no tool that changes the library is read-only.
C38_AnnotationsByName ==
  /\ \A i, j \in DOMAIN serverTools :
       serverTools[i].name = serverTools[j].name => i = j
  /\ \A i \in DOMAIN serverTools :
       LET name == serverTools[i].name
           annotations == serverTools[i].annotations
       IN /\ name \in deleteTools =>
               annotations = Annotations(FALSE, TRUE, TRUE)
          /\ name \in createTools =>
               annotations = Annotations(FALSE, FALSE, FALSE)
          /\ name \in updateTools =>
               annotations = Annotations(FALSE, FALSE, TRUE)
          /\ name \notin deleteTools \cup createTools \cup updateTools =>
               annotations.readOnlyHint /\ ~annotations.destructiveHint
          /\ name \in WritingTools => ~annotations.readOnlyHint
          /\ annotations.readOnlyHint => name \notin WritingTools
  /\ Len(serverTools) = Len(SmitheryTools) =>
       /\ Cardinality(Annotated(Annotations(FALSE, TRUE, TRUE))) = 3
       /\ Cardinality(Annotated(Annotations(FALSE, FALSE, FALSE))) = 5
       /\ Cardinality(Annotated(Annotations(FALSE, FALSE, TRUE))) = 7
       /\ Cardinality(Annotated(Annotations(TRUE, FALSE, TRUE))) = 15

\* All tools are registered, bulk_tags as an update and get_tags read-only.
C38_Witness ==
  /\ Len(serverTools) = Len(SmitheryTools)
  /\ ServerTool(<<"bulk_tags">>, Annotations(FALSE, FALSE, TRUE))
       \in {serverTools[i] : i \in DOMAIN serverTools}
  /\ ServerTool(<<"get_tags">>, Annotations(TRUE, FALSE, TRUE))
       \in {serverTools[i] : i \in DOMAIN serverTools}

-----------------------------------------------------------------------------
(* Properties of the dispatch on the request type *)

\* The responses the callback of request s was invoked with
ResponsesOf(s) == {calls[s][k].response : k \in DOMAIN calls[s]}

\* C40: no response has the code invalid_request_type, for any request:
\* a request that is not answered with invalid_request has the type
\* tool_call or prompt_call, so the dispatcher's last branch is never taken.
C40_TypeBranchUnreachable ==
  \A s \in Slots :
    /\ \A response \in ResponsesOf(s) : response.code # <<"invalid_request_type">>
    /\ ResponsesOf(s) # {}
       /\ (\A response \in ResponsesOf(s) : response.code # <<"invalid_request">>) =>
         request[s].type \in {Str(<<"tool_call">>), Str(<<"prompt_call">>)}

\* A request with every field in order but the type resource_call was
\* answered with invalid_request.
C40_Witness ==
  \E s \in Slots :
    /\ request[s].type = Str(<<"resource_call">>)
    /\ request[s].name = Str(GET_TAGS)
    /\ request[s].request_id = R1
    /\ request[s].parameters = Obj("ok")
    /\ \E response \in ResponsesOf(s) :
         /\ response.code = <<"invalid_request">>
         /\ response.etype = "transport"

-----------------------------------------------------------------------------
(* Properties of the error responses *)

\* The kinds of the error taxonomy
ErrorKinds == {"transport", "validation", "execution"}

\* The response has the shape { error: { type, details: { code, message } } }
\* with a type of the taxonomy.
IsErrorEnvelope(response) ==
  /\ response.etype \in ErrorKinds
  /\ response.code # <<>>
  /\ response.message # <<>>

\* The error responses the middleware and the route handlers have written
\* (the 404 of a request no route takes is written by the framework).
ErrorResponsesWritten ==
  {response \in ({gate.response, lastPost.response}
                 \cup {mcp[r].response : r \in McpRequests}) :
     response.status >= 400 /\ response # NoRoute}

\* C28: every error response the server writes has the error-envelope
\* shape: error.type is transport, validation or execution and details
\* carries a code and a message.
C28_ErrorEnvelopeShape ==
  \A response \in ErrorResponsesWritten : IsErrorEnvelope(response)

-----------------------------------------------------------------------------
(* Properties of the process *)

\* The promise of server.start() is rejected in this step.
StartRejects == startPromise # "rejected" /\ startPromise' = "rejected"

\* An error reaches the process in this step: an uncaught exception, an
\* unhandled rejection or an 'error' event of the server.
FaultArises == faults' # faults

\* The logger printed in this step, and its last line is an error line.
ErrorLogged ==
  LET before == IF LoggerTransport = "stdout" THEN stdout ELSE stderr
      after == IF LoggerTransport = "stdout" THEN stdout' ELSE stderr'
  IN /\ Len(after) > Len(before)
     /\ after[Len(after)] = LogError

\* C29: when the bind fails server.start() rejects, the process exits with
\* a nonzero status and the server never becomes ready; once start() has
\* succeeded, an uncaught exception or unhandled rejection is logged and
\* does not end the process.
C29_StartupFatalThenResilient ==
  [][/\ StartRejects => exitCode' \notin {Running, 0} /\ ~isReady'
     /\ startPromise = "rejected" => exitCode' = exitCode /\ ~isReady'
     /\ Listening /\ FaultArises =>
          /\ ErrorLogged
          /\ exitCode' = Running
          /\ isReady']_vars

\* After start() succeeded errors reached the process, were logged, and the
\* process runs and is ready.
C29_Witness ==
  /\ Listening
  /\ faults = 2
  /\ hooks
  /\ exitCode = Running
  /\ isReady
  /\ health.status = 200

-----------------------------------------------------------------------------
(* Properties of the registries *)

\* GET /capabilities or tools/list is answered in this step.
ListingAnswered == listing'.seq # listing.seq

\* The registries hold 30 tools and 2 prompts, under the names the Smithery
\* entry point registers, and this step leaves them as they are.
RegistriesFixed ==
  /\ Cardinality(RegistryNames(toolRegistry)) = 30
  /\ Cardinality(RegistryNames(promptRegistry)) = 2
  /\ Cardinality(toolRegistry) = 30
  /\ Cardinality(promptRegistry) = 2
  /\ SmitheryToolNames = RegistryNames(toolRegistry)
  /\ SmitheryPromptNames = RegistryNames(promptRegistry)
  /\ Len(SmitheryTools) = 30
  /\ Len(SmitheryPrompts) = 2
  /\ toolRegistry' = toolRegistry
  /\ promptRegistry' = promptRegistry

\* The answer of GET /capabilities or tools/list of this step lists exactly
\* the registered names.
ListingReportsNames ==
  ListingAnswered =>
    /\ listing'.tools = NameList(RegistryNames(toolRegistry))
    /\ listing'.endpoint = "/capabilities" =>
         listing'.prompts = NameList(RegistryNames(promptRegistry))

\* C30 as stated: the server provides 30 tools and 2 prompts, the tool
\* registry and the Smithery entry point register the same 30 tools and 2
\* prompts, the registries are not changed afterwards, and /health,
\* /capabilities and tools/list each report exactly the registered names.
C30_AllReportNames ==
  [][/\ RegistriesFixed
     /\ ListingReportsNames
     /\ HealthAnswered =>
          /\ health'.tools = NameList(RegistryNames(toolRegistry))
          /\ health'.prompts = NameList(RegistryNames(promptRegistry))]_vars

\* C30 amended: as stated, but /health reports the number of the
\* registered tool names and of the registered prompt names, 30 and 2,
\* and not the names.
C30_NamesListedAndCounted ==
  [][/\ RegistriesFixed
     /\ ListingReportsNames
     /\ HealthAnswered =>
          /\ health'.tools = NameCount(RegistryNames(toolRegistry))
          /\ health'.tools.length = 30
          /\ health'.prompts = NameCount(RegistryNames(promptRegistry))
          /\ health'.prompts.length = 2]_vars

\* The running server has answered /health with the 30 and the 2 and
\* tools/list with the 30 names.
C30_Witness ==
  /\ Listening
  /\ health.status = 200
  /\ health.tools.length = 30
  /\ health.prompts.length = 2
  /\ listing.endpoint = "tools/list"
  /\ listing.tools.length = 30
  /\ <<"bulk_delete_documents">> \in listing.tools.names

-----------------------------------------------------------------------------
(* Properties of establishing an SSE connection *)

\* Establishing connection c failed: transport.start() or
\* mcpServer.connect(transport) rejected.
EstablishingFailed(c) == sse[c].phase = "failed"

\* The client of connection c disconnected while the handler of GET /sse
\* was still awaiting.
GoneWhileEstablishing(c) ==
  sse[c].phase \in {"starting", "connecting"} /\ ~sse[c].open

\* C31: no entry of the SSE session store belongs to a connection whose
\* establishing failed or whose client disconnected while it was being
\* established; an entry belongs to a connection that is established, with
\* its cleanup handlers installed, or still being established.
C31_StoreHoldsEstablished ==
  \A id \in DOMAIN sseTransports :
    LET c == sseTransports[id]
    IN /\ ~EstablishingFailed(c)
       /\ ~GoneWhileEstablishing(c)
       /\ HandlersInstalled(c) \/ sse[c].phase \in {"starting", "connecting"}

-----------------------------------------------------------------------------
(* Properties of the port *)

\* The middleware has run.
Parsed == argvPort # NoPort

\* The server is constructed.
Constructed == port # NoPort

\* x is an integer in 0..65535.
IsIntegerPort(x) ==
  x.t = "number" /\ ~x.nan /\ x.whole /\ x.floor \in 0..(PortLimit - 1)

\* x is NaN, negative or not below 65536.
OutOfRange(x) == x.t = "number" /\ (x.nan \/ x.floor < 0 \/ x.floor >= PortLimit)

\* C32: PORT is used only when --port was not passed: an explicitly passed
\* valid --port value is the port the server listens on, whatever PORT is.
C32_ExplicitPortWins ==
  cli.explicit /\ IsPort(cli.port) =>
    /\ Parsed => argvPort = cli.port
    /\ Constructed /\ ~isMCPInspector => port = cli.port

====
